---- MODULE Spec2Model ----
(***************************************************************************)
(* Model of the blob-lease lock of goazurelocking (locking.go): the Lock   *)
(* instance state machine (Lock / Renew / Unlock under internalMutex), the *)
(* behaviors AutoRenewLock, PanicOnLostLock, UnlockWhenContextCancelled    *)
(* and RetryObtainingLock, and the lease of the blob the instances share.  *)
(***************************************************************************)
EXTENDS Integers, FiniteSets, Sequences, TLC

\* ---- bounds of the model -------------------------------------------------
MaxOwnerOps == 3
MaxTicks == 2
MaxRetry == 1

\* ---- program constants ---------------------------------------------------
\* LockLost: make(chan struct{}, 1)
LockLostCap == 1

Instances == {"a", "b"}

AutoRenewLock == "AutoRenewLock"
PanicOnLostLock == "PanicOnLostLock"
UnlockWhenContextCancelled == "UnlockWhenContextCancelled"
RetryObtainingLock == "RetryObtainingLock"

defaultLockBehaviors ==
    {AutoRenewLock, PanicOnLostLock, UnlockWhenContextCancelled, RetryObtainingLock}

\* the goroutines of one instance: its caller and the three watcher behaviors
Owner == "owner"
Watchers == {AutoRenewLock, PanicOnLostLock, UnlockWhenContextCancelled}
Tasks == {Owner} \cup Watchers

NoLease == <<>>
NoResult == [op |-> "none", r |-> "none"]
NoCall == [at |-> "none"]
Free == "free"

\* variant: every instance is given the same id
LockID_Shared(i) == <<"uuid", "shared">>

\* uuid.NewV4(): one fresh identifier per instance
LockID(i) == <<"uuid", i>>

VARIABLES
    live,            \* the instances NewLockInstance has returned
    behaviors,       \* behaviors[i]: the behavior set applied to instance i
    lockAcquired,    \* Lock.lockAcquired
    used,            \* Lock.used
    cancelled,       \* Lock.cancel has been called
    parentDone,      \* ctxParent of the instance is cancelled
    LockLost,        \* number of notifications buffered in the LockLost channel
    internalMutex,   \* holder of Lock.internalMutex, or Free
    pc,              \* pc[i][t]: position of goroutine t of instance i
    res,             \* res[i][t]: the last Lock/Renew/Unlock body t ran and its result
    retriesLeft,     \* attempts backoff.Retry still grants the running Lock()
    opsLeft,         \* calls the owner may still start
    ticksLeft,       \* ticks of time.Tick that may still lead to a Renew()
    calls,           \* calls[i]: lease requests sent by instance i, by kind (0, 1, many)
    lastReq,         \* the last lease request put on the wire
    lossSent,        \* notifications AutoRenewLock has sent on LockLost
    panicCalls,      \* calls of Lock.panic
    lease,           \* lease id holding the blob's lease, or NoLease
    transportFaulty, \* whether storage requests may fail for no reason of the lease
    leaseExpired,    \* a lease has run out on the storage side at some time
    newCall,         \* the call of NewLockInstance under way, or NoCall
    startCall,       \* the call of controller.Start under way, or NoCall
    syncCall         \* the call of Synchronizer.Sync under way, or NoCall

appVars == <<startCall, syncCall>>

vars == <<startCall, syncCall, newCall, live, behaviors, lockAcquired, used, cancelled,
          parentDone, LockLost, internalMutex, pc, res, retriesLeft, opsLeft, ticksLeft, calls,
          lastReq, lossSent, panicCalls, lease, transportFaulty, leaseExpired>>

\* l.ctx.Done(): the derived context is done when cancel() ran or the parent is done
ctxDone(i) == cancelled[i] \/ parentDone[i]

\* ---- the lease of the blob (storage service) -------------------------------
\* Every request answers ok or error; a request under a done context fails
\* before it is sent.
TransportError(done) ==
    IF done \/ transportFaulty THEN {[r |-> "error", lease |-> lease]} ELSE {}

AcquireLease(id, done) ==
    IF done THEN TransportError(done)
    ELSE TransportError(done) \cup
         (IF lease \in {NoLease, id}
             THEN {[r |-> "ok", lease |-> id]}
             ELSE {[r |-> "error", lease |-> lease]})

RenewLease(id, done) ==
    IF done THEN TransportError(done)
    ELSE TransportError(done) \cup
         (IF lease = id
             THEN {[r |-> "ok", lease |-> id]}
             ELSE {[r |-> "error", lease |-> lease]})

ReleaseLease(id, done) ==
    IF done THEN TransportError(done)
    ELSE TransportError(done) \cup
         (IF lease = id
             THEN {[r |-> "ok", lease |-> NoLease]}
             ELSE {[r |-> "error", lease |-> lease]})

\* seq alternates, so that a request repeated shows as a new one
Request(i, kind) ==
    [by |-> i, kind |-> kind, id |-> LockID(i), seq |-> 1 - lastReq.seq]

\* ---- helpers ---------------------------------------------------------------
SetPc(i, t, loc) == pc' = [pc EXCEPT ![i][t] = loc]
SetRes(i, t, op, r) == res' = [res EXCEPT ![i][t] = [op |-> op, r |-> r]]
\* calls counts the requests of a kind as 0, 1, or 2 for two and more
Count(i, kind) == calls' = [calls EXCEPT ![i][kind] = IF @ = 0 THEN 1 ELSE 2]

\* where goroutine t goes on when the body of op returns r
After(i, t, op, r) ==
    CASE t = Owner /\ op = "Lock" ->
             IF RetryObtainingLock \in behaviors[i] /\ r # "ok" THEN "retry" ELSE "idle"
      [] t = Owner -> "idle"
      [] t = AutoRenewLock -> IF r # "ok" THEN "renew_failed" ELSE "select"
      [] t = PanicOnLostLock -> "panic"
      [] OTHER -> "done"

InBody == {"Lock_fin", "Renew_fin", "Unlock_fin"}

\* ---- initial states --------------------------------------------------------
BehaviorSets ==
    {{}, {RetryObtainingLock}, {AutoRenewLock},
     {AutoRenewLock, UnlockWhenContextCancelled}, defaultLockBehaviors}

\* the behaviors of the two coordinators of the contention scenario: the first
\* keeps its lease renewed, the second retries to obtain the lock
DuoBehaviors ==
    {[i \in Instances |-> IF i = "a" THEN {AutoRenewLock} ELSE {RetryObtainingLock}]}

\* the calls of the two owners: the first locks, renews or unlocks, the second
\* makes one call
DuoOps == [i \in Instances |-> IF i = "a" THEN MaxOwnerOps - 1 ELSE 1]

InitPc(bs) ==
    [t \in Tasks |-> IF t = Owner THEN "idle"
                     ELSE IF t \in bs THEN "select" ELSE "absent"]

InitWith(created, choices, faulty, ops, ticks) ==
    /\ live = created
    /\ \E f \in choices :
          behaviors = [i \in Instances |-> IF i \in live THEN f[i] ELSE {}]
    /\ lockAcquired = [i \in Instances |-> FALSE]
    /\ used = [i \in Instances |-> FALSE]
    /\ cancelled = [i \in Instances |-> FALSE]
    /\ parentDone = [i \in Instances |-> FALSE]
    /\ LockLost = [i \in Instances |-> 0]
    /\ internalMutex = [i \in Instances |-> Free]
    /\ pc = [i \in Instances |-> InitPc(behaviors[i])]
    /\ res = [i \in Instances |-> [t \in Tasks |-> NoResult]]
    /\ retriesLeft = [i \in Instances |-> 0]
    /\ opsLeft = ops
    /\ ticksLeft = [i \in Instances |-> ticks]
    /\ calls = [i \in Instances |-> [acquire |-> 0, renew |-> 0, release |-> 0]]
    /\ lastReq = [by |-> "none", kind |-> "none", id |-> <<>>, seq |-> 0]
    /\ lossSent = [i \in Instances |-> 0]
    /\ panicCalls = [i \in Instances |-> 0]
    /\ lease = NoLease
    /\ transportFaulty = faulty
    /\ leaseExpired = FALSE

\* one instance, used in every way its owner can use it
Init ==
    /\ InitWith({"a"}, [Instances -> BehaviorSets], TRUE,
                [i \in Instances |-> MaxOwnerOps], MaxTicks)
    /\ newCall = NoCall
    /\ startCall = NoCall /\ syncCall = NoCall

\* ---- Lock / Renew / Unlock bodies -----------------------------------------
\* a state check of the body fails: the error is returned and the deferred
\* internalMutex.Unlock() runs
Misuse(i, t, op) ==
    /\ SetRes(i, t, op, "misuse")
    /\ SetPc(i, t, After(i, t, op, "misuse"))
    /\ UNCHANGED <<internalMutex, calls, lastReq, lease>>

\* the body sends its lease request and gets the answer, still holding
\* internalMutex
Send(i, t, op, kind, outcomes, fin) ==
    /\ \E o \in outcomes :
          /\ SetRes(i, t, op, o.r)
          /\ lease' = o.lease
    /\ Count(i, kind)
    /\ lastReq' = Request(i, kind)
    /\ SetPc(i, t, fin)
    /\ internalMutex' = [internalMutex EXCEPT ![i] = t]

\* variant: the bodies do not take internalMutex
MutexLock_Absent(i) == TRUE

\* internalMutex.Lock() at the head of Lock, Renew and unlockContext
MutexLock(i) == internalMutex[i] = Free

\* variant: Lock without the lockAcquired check
LockCall_NoAcquiredCheck(i, t) ==
    /\ pc[i][t] = "Lock_wait"
    /\ MutexLock(i)
    /\ IF used[i]
          THEN Misuse(i, t, "Lock")
          ELSE Send(i, t, "Lock", "acquire", AcquireLease(LockID(i), ctxDone(i)), "Lock_fin")
    /\ UNCHANGED <<appVars, newCall, live, behaviors, lockAcquired, used, cancelled, parentDone,
                   LockLost, retriesLeft, opsLeft, ticksLeft, lossSent,
                   panicCalls, transportFaulty, leaseExpired>>

\* Lock: internalMutex.Lock(), the state checks and blobURL.AcquireLease
\* under lockInstance.ctx
LockCall(i, t) ==
    /\ pc[i][t] = "Lock_wait"
    /\ MutexLock(i)
    /\ IF used[i] \/ lockAcquired[i]
          THEN Misuse(i, t, "Lock")
          ELSE Send(i, t, "Lock", "acquire", AcquireLease(LockID(i), ctxDone(i)), "Lock_fin")
    /\ UNCHANGED <<appVars, newCall, live, behaviors, lockAcquired, used, cancelled, parentDone,
                   LockLost, retriesLeft, opsLeft, ticksLeft, lossSent,
                   panicCalls, transportFaulty, leaseExpired>>

\* variant: Lock sets lockAcquired whatever AcquireLease answered
LockFinish_IgnoresError(i, t) ==
    /\ pc[i][t] = "Lock_fin"
    /\ lockAcquired' = [lockAcquired EXCEPT ![i] = TRUE]
    /\ internalMutex' = [internalMutex EXCEPT ![i] = Free]
    /\ SetPc(i, t, After(i, t, "Lock", "ok"))
    /\ res' = [res EXCEPT ![i][t] = [op |-> "Lock", r |-> "ok"]]
    /\ UNCHANGED <<appVars, newCall, live, behaviors, used, cancelled, parentDone, LockLost,
                   retriesLeft, opsLeft, ticksLeft, calls, lastReq, lossSent,
                   panicCalls, lease, transportFaulty, leaseExpired>>

\* variant: Lock cancels the scope of the instance when AcquireLease failed
LockFinish_CancelsOnError(i, t) ==
    /\ pc[i][t] = "Lock_fin"
    /\ lockAcquired' = [lockAcquired EXCEPT ![i] = IF res[i][t].r = "ok" THEN TRUE ELSE @]
    /\ cancelled' = [cancelled EXCEPT ![i] = IF res[i][t].r = "ok" THEN @ ELSE TRUE]
    /\ internalMutex' = [internalMutex EXCEPT ![i] = Free]
    /\ SetPc(i, t, After(i, t, "Lock", res[i][t].r))
    /\ UNCHANGED <<appVars, newCall, live, behaviors, used, parentDone, LockLost, res,
                   retriesLeft, opsLeft, ticksLeft, calls, lastReq, lossSent,
                   panicCalls, lease, transportFaulty, leaseExpired>>

\* Lock: on success lockAcquired = true; return, internalMutex.Unlock()
LockFinish(i, t) ==
    /\ pc[i][t] = "Lock_fin"
    /\ lockAcquired' = [lockAcquired EXCEPT ![i] = IF res[i][t].r = "ok" THEN TRUE ELSE @]
    /\ internalMutex' = [internalMutex EXCEPT ![i] = Free]
    /\ SetPc(i, t, After(i, t, "Lock", res[i][t].r))
    /\ UNCHANGED <<appVars, newCall, live, behaviors, used, cancelled, parentDone, LockLost, res,
                   retriesLeft, opsLeft, ticksLeft, calls, lastReq, lossSent,
                   panicCalls, lease, transportFaulty, leaseExpired>>

\* variant: Renew without the used check
RenewCall_NoUsedCheck(i, t) ==
    /\ pc[i][t] = "Renew_wait"
    /\ MutexLock(i)
    /\ IF ~lockAcquired[i]
          THEN Misuse(i, t, "Renew")
          ELSE Send(i, t, "Renew", "renew", RenewLease(LockID(i), ctxDone(i)), "Renew_fin")
    /\ UNCHANGED <<appVars, newCall, live, behaviors, lockAcquired, used, cancelled, parentDone,
                   LockLost, retriesLeft, opsLeft, ticksLeft, lossSent,
                   panicCalls, transportFaulty, leaseExpired>>

\* variant: Renew without the lockAcquired check
RenewCall_NoAcquiredCheck(i, t) ==
    /\ pc[i][t] = "Renew_wait"
    /\ MutexLock(i)
    /\ IF used[i]
          THEN Misuse(i, t, "Renew")
          ELSE Send(i, t, "Renew", "renew", RenewLease(LockID(i), ctxDone(i)), "Renew_fin")
    /\ UNCHANGED <<appVars, newCall, live, behaviors, lockAcquired, used, cancelled, parentDone,
                   LockLost, retriesLeft, opsLeft, ticksLeft, lossSent,
                   panicCalls, transportFaulty, leaseExpired>>

\* Renew: internalMutex.Lock(), the state checks and blobURL.RenewLease under
\* lockInstance.ctx
RenewCall(i, t) ==
    /\ pc[i][t] = "Renew_wait"
    /\ MutexLock(i)
    /\ IF ~lockAcquired[i] \/ used[i]
          THEN Misuse(i, t, "Renew")
          ELSE Send(i, t, "Renew", "renew", RenewLease(LockID(i), ctxDone(i)), "Renew_fin")
    /\ UNCHANGED <<appVars, newCall, live, behaviors, lockAcquired, used, cancelled, parentDone,
                   LockLost, retriesLeft, opsLeft, ticksLeft, lossSent,
                   panicCalls, transportFaulty, leaseExpired>>

\* Renew: return the answer, internalMutex.Unlock()
RenewFinish(i, t) ==
    /\ pc[i][t] = "Renew_fin"
    /\ internalMutex' = [internalMutex EXCEPT ![i] = Free]
    /\ SetPc(i, t, After(i, t, "Renew", res[i][t].r))
    /\ UNCHANGED <<appVars, newCall, live, behaviors, lockAcquired, used, cancelled, parentDone,
                   LockLost, res, retriesLeft, opsLeft, ticksLeft, calls, lastReq,
                   lossSent, panicCalls, lease, transportFaulty, leaseExpired>>

\* variant: every unlockContext runs under the context of the instance
UnlockCtxDone_InstanceScope(i, t) == ctxDone(i)

\* the context unlockContext releases under: UnlockWhenContextCancelled passes
\* a fresh context with a deadline, Unlock passes lockInstance.ctx
UnlockCtxDone(i, t) == IF t = UnlockWhenContextCancelled THEN FALSE ELSE ctxDone(i)

\* variant: unlockContext without the lockAcquired check
UnlockCall_NoAcquiredCheck(i, t) ==
    /\ pc[i][t] = "Unlock_wait"
    /\ MutexLock(i)
    /\ IF used[i]
          THEN Misuse(i, t, "Unlock")
          ELSE Send(i, t, "Unlock", "release", ReleaseLease(LockID(i), UnlockCtxDone(i, t)), "Unlock_fin")
    /\ UNCHANGED <<appVars, newCall, live, behaviors, lockAcquired, used, cancelled, parentDone,
                   LockLost, retriesLeft, opsLeft, ticksLeft, lossSent,
                   panicCalls, transportFaulty, leaseExpired>>

\* variant: unlockContext without the used check
UnlockCall_NoUsedCheck(i, t) ==
    /\ pc[i][t] = "Unlock_wait"
    /\ MutexLock(i)
    /\ IF ~lockAcquired[i]
          THEN Misuse(i, t, "Unlock")
          ELSE Send(i, t, "Unlock", "release", ReleaseLease(LockID(i), UnlockCtxDone(i, t)), "Unlock_fin")
    /\ UNCHANGED <<appVars, newCall, live, behaviors, lockAcquired, used, cancelled, parentDone,
                   LockLost, retriesLeft, opsLeft, ticksLeft, lossSent,
                   panicCalls, transportFaulty, leaseExpired>>

\* variant: unlockContext returns nil without a ReleaseLease request
UnlockCall_SkipsRelease(i, t) ==
    /\ pc[i][t] = "Unlock_wait"
    /\ MutexLock(i)
    /\ IF ~lockAcquired[i] \/ used[i]
          THEN Misuse(i, t, "Unlock")
          ELSE Send(i, t, "Unlock", "release", {[r |-> "ok", lease |-> lease]}, "Unlock_fin")
    /\ UNCHANGED <<appVars, newCall, live, behaviors, lockAcquired, used, cancelled, parentDone,
                   LockLost, retriesLeft, opsLeft, ticksLeft, lossSent,
                   panicCalls, transportFaulty, leaseExpired>>

\* unlockContext: internalMutex.Lock(), the state checks and
\* blobURL.ReleaseLease under ctx
UnlockCall(i, t) ==
    /\ pc[i][t] = "Unlock_wait"
    /\ MutexLock(i)
    /\ IF ~lockAcquired[i] \/ used[i]
          THEN Misuse(i, t, "Unlock")
          ELSE Send(i, t, "Unlock", "release", ReleaseLease(LockID(i), UnlockCtxDone(i, t)), "Unlock_fin")
    /\ UNCHANGED <<appVars, newCall, live, behaviors, lockAcquired, used, cancelled, parentDone,
                   LockLost, retriesLeft, opsLeft, ticksLeft, lossSent,
                   panicCalls, transportFaulty, leaseExpired>>

\* variant: unlockContext without the deferred cancel()
UnlockFinish_NoCancel(i, t) ==
    /\ pc[i][t] = "Unlock_fin"
    /\ used' = [used EXCEPT ![i] = IF res[i][t].r = "ok" THEN TRUE ELSE @]
    /\ internalMutex' = [internalMutex EXCEPT ![i] = Free]
    /\ SetPc(i, t, After(i, t, "Unlock", res[i][t].r))
    /\ UNCHANGED <<appVars, newCall, live, behaviors, lockAcquired, cancelled, parentDone, LockLost,
                   res, retriesLeft, opsLeft, ticksLeft, calls, lastReq, lossSent,
                   panicCalls, lease, transportFaulty, leaseExpired>>

\* variant: unlockContext marks the instance used whatever ReleaseLease answered
UnlockFinish_UsedOnError(i, t) ==
    /\ pc[i][t] = "Unlock_fin"
    /\ used' = [used EXCEPT ![i] = TRUE]
    /\ cancelled' = [cancelled EXCEPT ![i] = TRUE]
    /\ internalMutex' = [internalMutex EXCEPT ![i] = Free]
    /\ SetPc(i, t, After(i, t, "Unlock", res[i][t].r))
    /\ UNCHANGED <<appVars, newCall, live, behaviors, lockAcquired, parentDone, LockLost,
                   res, retriesLeft, opsLeft, ticksLeft, calls, lastReq, lossSent,
                   panicCalls, lease, transportFaulty, leaseExpired>>

\* variant: a successful unlockContext also unsets lockAcquired
UnlockFinish_ClearsAcquired(i, t) ==
    /\ pc[i][t] = "Unlock_fin"
    /\ used' = [used EXCEPT ![i] = IF res[i][t].r = "ok" THEN TRUE ELSE @]
    /\ lockAcquired' = [lockAcquired EXCEPT ![i] = IF res[i][t].r = "ok" THEN FALSE ELSE @]
    /\ cancelled' = [cancelled EXCEPT ![i] = TRUE]
    /\ internalMutex' = [internalMutex EXCEPT ![i] = Free]
    /\ SetPc(i, t, After(i, t, "Unlock", res[i][t].r))
    /\ UNCHANGED <<appVars, newCall, live, behaviors, parentDone, LockLost, res,
                   retriesLeft, opsLeft, ticksLeft, calls, lastReq, lossSent,
                   panicCalls, lease, transportFaulty, leaseExpired>>

\* unlockContext: on success used = true; the deferred cancel() and
\* internalMutex.Unlock() run either way
UnlockFinish(i, t) ==
    /\ pc[i][t] = "Unlock_fin"
    /\ used' = [used EXCEPT ![i] = IF res[i][t].r = "ok" THEN TRUE ELSE @]
    /\ cancelled' = [cancelled EXCEPT ![i] = TRUE]
    /\ internalMutex' = [internalMutex EXCEPT ![i] = Free]
    /\ SetPc(i, t, After(i, t, "Unlock", res[i][t].r))
    /\ UNCHANGED <<appVars, newCall, live, behaviors, lockAcquired, parentDone, LockLost, res,
                   retriesLeft, opsLeft, ticksLeft, calls, lastReq, lossSent,
                   panicCalls, lease, transportFaulty, leaseExpired>>

\* ---- the owner of the instance ----------------------------------------------
\* the number of further attempts the policy of RetryObtainingLock will grant a
\* Lock(): as many as start before MaxElapsedTime = 10 * LockTTL has passed
RetryBudgets(i, op) ==
    IF op = "Lock" /\ RetryObtainingLock \in behaviors[i] THEN 0..MaxRetry ELSE {0}

\* the caller starts l.Lock(), l.Renew() or l.Unlock(); RetryObtainingLock has
\* replaced l.Lock by backoff.Retry(existingLockFunc, policy)
OwnerCall(i, op) ==
    /\ i \in live
    /\ pc[i][Owner] = "idle"
    /\ opsLeft[i] > 0
    /\ opsLeft' = [opsLeft EXCEPT ![i] = @ - 1]
    /\ \E n \in RetryBudgets(i, op) : retriesLeft' = [retriesLeft EXCEPT ![i] = n]
    /\ res' = [res EXCEPT ![i][Owner] = NoResult]
    /\ SetPc(i, Owner, CASE op = "Lock" -> "Lock_wait"
                         [] op = "Renew" -> "Renew_wait"
                         [] OTHER -> "Unlock_wait")
    /\ UNCHANGED <<appVars, newCall, live, behaviors, lockAcquired, used, cancelled, parentDone,
                   LockLost, internalMutex, ticksLeft, calls, lastReq, lossSent,
                   panicCalls, lease, transportFaulty, leaseExpired>>

\* backoff.Retry after a failed attempt: NextBackOff() grants another attempt
RetryAgain(i) ==
    /\ pc[i][Owner] = "retry"
    /\ retriesLeft[i] > 0
    /\ retriesLeft' = [retriesLeft EXCEPT ![i] = @ - 1]
    /\ SetPc(i, Owner, "Lock_wait")
    /\ UNCHANGED <<appVars, newCall, live, behaviors, lockAcquired, used, cancelled, parentDone,
                   LockLost, internalMutex, res, opsLeft, ticksLeft, calls,
                   lastReq, lossSent, panicCalls, lease, transportFaulty,
                   leaseExpired>>

\* variant: backoff.Retry gives up although the policy grants another attempt
RetryStop_Early(i) ==
    /\ pc[i][Owner] = "retry"
    /\ SetPc(i, Owner, "idle")
    /\ UNCHANGED <<appVars, newCall, live, behaviors, lockAcquired, used, cancelled, parentDone,
                   LockLost, internalMutex, res, retriesLeft, opsLeft, ticksLeft,
                   calls, lastReq, lossSent, panicCalls, lease, transportFaulty,
                   leaseExpired>>

\* backoff.Retry after a failed attempt: NextBackOff() is Stop (MaxElapsedTime,
\* ten times LockTTL, has passed), the last error is returned
RetryStop(i) ==
    /\ pc[i][Owner] = "retry"
    /\ retriesLeft[i] = 0
    /\ SetPc(i, Owner, "idle")
    /\ UNCHANGED <<appVars, newCall, live, behaviors, lockAcquired, used, cancelled, parentDone,
                   LockLost, internalMutex, res, retriesLeft, opsLeft, ticksLeft,
                   calls, lastReq, lossSent, panicCalls, lease, transportFaulty,
                   leaseExpired>>

\* the caller receives from the public LockLost channel
OwnerReceivesLockLost(i) ==
    /\ pc[i][Owner] = "idle"
    /\ LockLost[i] > 0
    /\ LockLost' = [LockLost EXCEPT ![i] = @ - 1]
    /\ UNCHANGED <<appVars, newCall, live, behaviors, lockAcquired, used, cancelled, parentDone,
                   internalMutex, pc, res, retriesLeft, opsLeft, ticksLeft, calls,
                   lastReq, lossSent, panicCalls, lease, transportFaulty,
                   leaseExpired>>

\* ---- the watcher goroutines ---------------------------------------------------
\* variant: UnlockWhenContextCancelled unlocks without looking at lockAcquired
SelectDone_AlwaysUnlocks(i, t) ==
    /\ t \in Watchers
    /\ pc[i][t] = "select"
    /\ ctxDone(i)
    /\ SetPc(i, t, IF t = UnlockWhenContextCancelled THEN "Unlock_wait" ELSE "done")
    /\ UNCHANGED <<appVars, newCall, live, behaviors, lockAcquired, used, cancelled, parentDone,
                   LockLost, internalMutex, res, retriesLeft, opsLeft, ticksLeft,
                   calls, lastReq, lossSent, panicCalls, lease, transportFaulty,
                   leaseExpired>>

\* select: case <-l.ctx.Done(): AutoRenewLock and PanicOnLostLock return,
\* UnlockWhenContextCancelled returns if !l.lockAcquired and otherwise calls
\* l.unlockContext(ctx) under a fresh context
SelectDone(i, t) ==
    /\ t \in Watchers
    /\ pc[i][t] = "select"
    /\ ctxDone(i)
    /\ SetPc(i, t, IF t = UnlockWhenContextCancelled /\ lockAcquired[i]
                       THEN "Unlock_wait" ELSE "done")
    /\ UNCHANGED <<appVars, newCall, live, behaviors, lockAcquired, used, cancelled, parentDone,
                   LockLost, internalMutex, res, retriesLeft, opsLeft, ticksLeft,
                   calls, lastReq, lossSent, panicCalls, lease, transportFaulty,
                   leaseExpired>>

\* variant: PanicOnLostLock goes to its fatal path without calling l.Unlock()
SelectLockLost_PanicSkipsUnlock(i, t) ==
    /\ t \in Watchers
    /\ pc[i][t] = "select"
    /\ LockLost[i] > 0
    /\ LockLost' = [LockLost EXCEPT ![i] = @ - 1]
    /\ SetPc(i, t, IF t = PanicOnLostLock THEN "panic" ELSE "done")
    /\ UNCHANGED <<appVars, newCall, live, behaviors, lockAcquired, used, cancelled, parentDone,
                   internalMutex, res, retriesLeft, opsLeft, ticksLeft, calls,
                   lastReq, lossSent, panicCalls, lease, transportFaulty,
                   leaseExpired>>

\* select: case <-l.LockLost
SelectLockLost(i, t) ==
    /\ t \in Watchers
    /\ pc[i][t] = "select"
    /\ LockLost[i] > 0
    /\ LockLost' = [LockLost EXCEPT ![i] = @ - 1]
    /\ SetPc(i, t, IF t = PanicOnLostLock THEN "Unlock_wait" ELSE "done")
    /\ UNCHANGED <<appVars, newCall, live, behaviors, lockAcquired, used, cancelled, parentDone,
                   internalMutex, res, retriesLeft, opsLeft, ticksLeft, calls,
                   lastReq, lossSent, panicCalls, lease, transportFaulty,
                   leaseExpired>>

\* variant: the tick of AutoRenewLock skips l.Renew()
SelectTick_NoRenew(i) ==
    /\ pc[i][AutoRenewLock] = "select"
    /\ ticksLeft[i] > 0
    /\ ticksLeft' = [ticksLeft EXCEPT ![i] = IF lockAcquired[i] THEN @ - 1 ELSE @]
    /\ UNCHANGED <<appVars, newCall, live, behaviors, lockAcquired, used, cancelled, parentDone,
                   LockLost, internalMutex, pc, res, retriesLeft, opsLeft, calls,
                   lastReq, lossSent, panicCalls, lease, transportFaulty,
                   leaseExpired>>

\* AutoRenewLock, select: case <-time.Tick(l.LockTTL / 2):
\* if !l.lockAcquired { continue }; otherwise l.Renew()
SelectTick(i) ==
    /\ pc[i][AutoRenewLock] = "select"
    /\ ticksLeft[i] > 0
    /\ ticksLeft' = [ticksLeft EXCEPT ![i] = IF lockAcquired[i] THEN @ - 1 ELSE @]
    /\ SetPc(i, AutoRenewLock, IF lockAcquired[i] THEN "Renew_wait" ELSE "select")
    /\ UNCHANGED <<appVars, newCall, live, behaviors, lockAcquired, used, cancelled, parentDone,
                   LockLost, internalMutex, res, retriesLeft, opsLeft, calls,
                   lastReq, lossSent, panicCalls, lease, transportFaulty,
                   leaseExpired>>

\* AutoRenewLock, Renew returned an error: l.cancel()
RenewFailed(i) ==
    /\ pc[i][AutoRenewLock] = "renew_failed"
    /\ cancelled' = [cancelled EXCEPT ![i] = TRUE]
    /\ SetPc(i, AutoRenewLock, "send_lost")
    /\ UNCHANGED <<appVars, newCall, live, behaviors, lockAcquired, used, parentDone, LockLost,
                   internalMutex, res, retriesLeft, opsLeft, ticksLeft, calls,
                   lastReq, lossSent, panicCalls, lease, transportFaulty,
                   leaseExpired>>

\* variant: AutoRenewLock goes on with its loop after it has notified the loss
SendLockLost_KeepsRunning(i) ==
    /\ pc[i][AutoRenewLock] = "send_lost"
    /\ LockLost[i] < LockLostCap
    /\ LockLost' = [LockLost EXCEPT ![i] = @ + 1]
    /\ lossSent' = [lossSent EXCEPT ![i] = @ + 1]
    /\ SetPc(i, AutoRenewLock, "select")
    /\ UNCHANGED <<appVars, newCall, live, behaviors, lockAcquired, used, cancelled, parentDone,
                   internalMutex, res, retriesLeft, opsLeft, ticksLeft, calls,
                   lastReq, panicCalls, lease, transportFaulty, leaseExpired>>

\* variant: LockLost is made without a buffer, and no goroutine is receiving
SendLockLost_Unbuffered(i) ==
    /\ pc[i][AutoRenewLock] = "send_lost"
    /\ LockLost[i] < LockLostCap - 1
    /\ LockLost' = [LockLost EXCEPT ![i] = @ + 1]
    /\ lossSent' = [lossSent EXCEPT ![i] = @ + 1]
    /\ SetPc(i, AutoRenewLock, "done")
    /\ UNCHANGED <<appVars, newCall, live, behaviors, lockAcquired, used, cancelled, parentDone,
                   internalMutex, res, retriesLeft, opsLeft, ticksLeft, calls,
                   lastReq, panicCalls, lease, transportFaulty, leaseExpired>>

\* AutoRenewLock: l.LockLost <- struct{}{}, then return
SendLockLost(i) ==
    /\ pc[i][AutoRenewLock] = "send_lost"
    /\ LockLost[i] < LockLostCap
    /\ LockLost' = [LockLost EXCEPT ![i] = @ + 1]
    /\ lossSent' = [lossSent EXCEPT ![i] = @ + 1]
    /\ SetPc(i, AutoRenewLock, "done")
    /\ UNCHANGED <<appVars, newCall, live, behaviors, lockAcquired, used, cancelled, parentDone,
                   internalMutex, res, retriesLeft, opsLeft, ticksLeft, calls,
                   lastReq, panicCalls, lease, transportFaulty, leaseExpired>>

\* PanicOnLostLock after l.Unlock(): l.panic(...)
Panic(i) ==
    /\ pc[i][PanicOnLostLock] = "panic"
    /\ panicCalls' = [panicCalls EXCEPT ![i] = @ + 1]
    /\ SetPc(i, PanicOnLostLock, "done")
    /\ UNCHANGED <<appVars, newCall, live, behaviors, lockAcquired, used, cancelled, parentDone,
                   LockLost, internalMutex, res, retriesLeft, opsLeft, ticksLeft,
                   calls, lastReq, lossSent, lease, transportFaulty, leaseExpired>>

\* ---- the environment ----------------------------------------------------------
\* the context handed to NewLockInstance is cancelled
ParentCancel(i) ==
    /\ i \in live
    /\ ~parentDone[i]
    /\ parentDone' = [parentDone EXCEPT ![i] = TRUE]
    /\ UNCHANGED <<appVars, newCall, live, behaviors, lockAcquired, used, cancelled, LockLost,
                   internalMutex, pc, res, retriesLeft, opsLeft, ticksLeft, calls,
                   lastReq, lossSent, panicCalls, lease, transportFaulty,
                   leaseExpired>>

\* the lease runs out: LockTTL seconds have passed since it was acquired or renewed
LeaseExpires ==
    /\ lease # NoLease
    /\ lease' = NoLease
    /\ leaseExpired' = TRUE
    /\ UNCHANGED <<appVars, newCall, live, behaviors, lockAcquired, used, cancelled, parentDone,
                   LockLost, internalMutex, pc, res, retriesLeft, opsLeft,
                   ticksLeft, calls, lastReq, lossSent, panicCalls,
                   transportFaulty>>

\* ---- the life-cycle of an instance --------------------------------------------
Idle(i) == ~lockAcquired[i] /\ ~used[i]
Acquired(i) == lockAcquired[i] /\ ~used[i]
Released(i) == used[i]

\* ---- specification ------------------------------------------------------------
Next ==
    \/ \E i \in Instances, op \in {"Lock", "Renew", "Unlock"} : OwnerCall(i, op)
    \/ \E i \in Instances : RetryAgain(i)
    \/ \E i \in Instances : RetryStop(i)
    \/ \E i \in Instances : OwnerReceivesLockLost(i)
    \/ \E i \in Instances, t \in Tasks : LockCall(i, t)
    \/ \E i \in Instances, t \in Tasks : LockFinish(i, t)
    \/ \E i \in Instances, t \in Tasks : RenewCall(i, t)
    \/ \E i \in Instances, t \in Tasks : RenewFinish(i, t)
    \/ \E i \in Instances, t \in Tasks : UnlockCall(i, t)
    \/ \E i \in Instances, t \in Tasks : UnlockFinish(i, t)
    \/ \E i \in Instances, t \in Watchers : SelectDone(i, t)
    \/ \E i \in Instances, t \in Watchers : SelectLockLost(i, t)
    \/ \E i \in Instances : SelectTick(i)
    \/ \E i \in Instances : RenewFailed(i)
    \/ \E i \in Instances : SendLockLost(i)
    \/ \E i \in Instances : Panic(i)
    \/ \E i \in Instances : ParentCancel(i)
    \/ LeaseExpires

Spec == Init /\ [][Next]_vars

\* ---- two instances contending for one lock name ----------------------------------
\* Both instances are made for the same name by working coordinators: storage
\* answers every request by the state of the lease, and no parent context is
\* cancelled.  The lease may still run out.
InitDuo ==
    /\ InitWith(Instances, DuoBehaviors, FALSE, DuoOps, MaxTicks - 1)
    /\ newCall = NoCall
    /\ startCall = NoCall /\ syncCall = NoCall

NextDuo ==
    \/ \E i \in Instances, op \in {"Lock", "Renew", "Unlock"} : OwnerCall(i, op)
    \/ \E i \in Instances : RetryAgain(i)
    \/ \E i \in Instances : RetryStop(i)
    \/ \E i \in Instances : OwnerReceivesLockLost(i)
    \/ \E i \in Instances, t \in Tasks : LockCall(i, t)
    \/ \E i \in Instances, t \in Tasks : LockFinish(i, t)
    \/ \E i \in Instances, t \in Tasks : RenewCall(i, t)
    \/ \E i \in Instances, t \in Tasks : RenewFinish(i, t)
    \/ \E i \in Instances, t \in Tasks : UnlockCall(i, t)
    \/ \E i \in Instances, t \in Tasks : UnlockFinish(i, t)
    \/ \E i \in Instances, t \in Watchers : SelectDone(i, t)
    \/ \E i \in Instances : SelectTick(i)
    \/ \E i \in Instances : RenewFailed(i)
    \/ \E i \in Instances : SendLockLost(i)
    \/ LeaseExpires

\* every goroutine that can take a step is scheduled in the end: a call that has
\* started runs to its return and backoff.Retry makes the attempts it has time for
FairDuo ==
    \A i \in Instances :
        /\ WF_vars(RetryAgain(i))
        /\ WF_vars(RetryStop(i))
        /\ \A t \in Tasks :
              /\ WF_vars(LockCall(i, t))
              /\ WF_vars(LockFinish(i, t))
              /\ WF_vars(RenewCall(i, t))
              /\ WF_vars(RenewFinish(i, t))
              /\ WF_vars(UnlockCall(i, t))
              /\ WF_vars(UnlockFinish(i, t))

SpecDuo == InitDuo /\ [][NextDuo]_vars /\ FairDuo

\* ---- an instance with the default behaviors that holds its lock ------------------
\* NewLockInstance without behaviors (the defaults apply, as in getLock of the
\* syncer); storage answers every request by the state of the lease and the
\* lease does not run out.  The owner locks and renews, and the context it made
\* the instance with is cancelled before it has called Unlock().
HeldBehaviors == {[i \in Instances |-> defaultLockBehaviors]}

InitHeld ==
    /\ InitWith({"a"}, HeldBehaviors, FALSE, [i \in Instances |-> MaxOwnerOps - 1],
                MaxTicks)
    /\ newCall = NoCall
    /\ startCall = NoCall /\ syncCall = NoCall

\* the parent context is cancelled while the instance holds the lock and nothing
\* else has cancelled its scope
CancelHeld(i) ==
    /\ Acquired(i)
    /\ ~cancelled[i]
    /\ ParentCancel(i)

NextHeld ==
    \/ \E i \in Instances, op \in {"Lock", "Renew"} : OwnerCall(i, op)
    \/ \E i \in Instances : RetryAgain(i)
    \/ \E i \in Instances : RetryStop(i)
    \/ \E i \in Instances : OwnerReceivesLockLost(i)
    \/ \E i \in Instances, t \in Tasks : LockCall(i, t)
    \/ \E i \in Instances, t \in Tasks : LockFinish(i, t)
    \/ \E i \in Instances, t \in Tasks : RenewCall(i, t)
    \/ \E i \in Instances, t \in Tasks : RenewFinish(i, t)
    \/ \E i \in Instances, t \in Tasks : UnlockCall(i, t)
    \/ \E i \in Instances, t \in Tasks : UnlockFinish(i, t)
    \/ \E i \in Instances, t \in Watchers : SelectDone(i, t)
    \/ \E i \in Instances, t \in Watchers : SelectLockLost(i, t)
    \/ \E i \in Instances : SelectTick(i)
    \/ \E i \in Instances : RenewFailed(i)
    \/ \E i \in Instances : SendLockLost(i)
    \/ \E i \in Instances : Panic(i)
    \/ \E i \in Instances : CancelHeld(i)

SpecHeld == InitHeld /\ [][NextHeld]_vars

\* ---- an instance with the default behaviors that loses its lease -----------------
\* As before the owner locks and renews, but here the lease may run out on the
\* storage side and no context is cancelled from outside; the notification on
\* LockLost is left to the behaviors.
InitLoss ==
    /\ InitWith({"a"}, HeldBehaviors, FALSE, [i \in Instances |-> MaxOwnerOps - 1],
                MaxTicks)
    /\ newCall = NoCall
    /\ startCall = NoCall /\ syncCall = NoCall

NextLoss ==
    \/ \E i \in Instances, op \in {"Lock", "Renew"} : OwnerCall(i, op)
    \/ \E i \in Instances : RetryAgain(i)
    \/ \E i \in Instances : RetryStop(i)
    \/ \E i \in Instances, t \in Tasks : LockCall(i, t)
    \/ \E i \in Instances, t \in Tasks : LockFinish(i, t)
    \/ \E i \in Instances, t \in Tasks : RenewCall(i, t)
    \/ \E i \in Instances, t \in Tasks : RenewFinish(i, t)
    \/ \E i \in Instances, t \in Tasks : UnlockCall(i, t)
    \/ \E i \in Instances, t \in Tasks : UnlockFinish(i, t)
    \/ \E i \in Instances, t \in Watchers : SelectDone(i, t)
    \/ \E i \in Instances, t \in Watchers : SelectLockLost(i, t)
    \/ \E i \in Instances : SelectTick(i)
    \/ \E i \in Instances : RenewFailed(i)
    \/ \E i \in Instances : SendLockLost(i)
    \/ \E i \in Instances : Panic(i)
    \/ LeaseExpires

\* the scheduler runs every goroutine that can take a step: a call that has
\* started returns, a select with a ready case takes one, backoff.Retry makes the
\* attempts it has time for
FairLoss ==
    \A i \in Instances :
        /\ WF_vars(RetryAgain(i))
        /\ WF_vars(RetryStop(i))
        /\ WF_vars(RenewFailed(i))
        /\ WF_vars(SendLockLost(i))
        /\ WF_vars(Panic(i))
        /\ \A t \in Watchers :
              /\ WF_vars(SelectDone(i, t))
              /\ WF_vars(SelectLockLost(i, t))
        /\ \A t \in Tasks :
              /\ WF_vars(LockCall(i, t))
              /\ WF_vars(LockFinish(i, t))
              /\ WF_vars(RenewCall(i, t))
              /\ WF_vars(RenewFinish(i, t))
              /\ WF_vars(UnlockCall(i, t))
              /\ WF_vars(UnlockFinish(i, t))

SpecLoss == InitLoss /\ [][NextLoss]_vars /\ FairLoss

\* ---- the goroutines of one instance under fair scheduling ----------------------------
\* One instance with the default behaviors, whose owner can
\* Lock() and Unlock() it, with a lease that may run out and a parent context
\* that may be cancelled; storage answers by the state of the lease.  Every
\* goroutine that can take a step takes it in the end.
InitLife ==
    /\ InitWith({"a"}, HeldBehaviors, FALSE, [i \in Instances |-> MaxOwnerOps - 1],
                MaxTicks - 1)
    /\ newCall = NoCall
    /\ startCall = NoCall /\ syncCall = NoCall

NextLife ==
    \/ \E i \in Instances, op \in {"Lock", "Unlock"} : OwnerCall(i, op)
    \/ \E i \in Instances : RetryAgain(i)
    \/ \E i \in Instances : RetryStop(i)
    \/ \E i \in Instances : OwnerReceivesLockLost(i)
    \/ \E i \in Instances, t \in Tasks : LockCall(i, t)
    \/ \E i \in Instances, t \in Tasks : LockFinish(i, t)
    \/ \E i \in Instances, t \in Tasks : RenewCall(i, t)
    \/ \E i \in Instances, t \in Tasks : RenewFinish(i, t)
    \/ \E i \in Instances, t \in Tasks : UnlockCall(i, t)
    \/ \E i \in Instances, t \in Tasks : UnlockFinish(i, t)
    \/ \E i \in Instances, t \in Watchers : SelectDone(i, t)
    \/ \E i \in Instances, t \in Watchers : SelectLockLost(i, t)
    \/ \E i \in Instances : SelectTick(i)
    \/ \E i \in Instances : RenewFailed(i)
    \/ \E i \in Instances : SendLockLost(i)
    \/ \E i \in Instances : Panic(i)
    \/ \E i \in Instances : ParentCancel(i)
    \/ LeaseExpires

SpecLife == InitLife /\ [][NextLife]_vars /\ FairLoss

\* ---- NewLockInstance ----------------------------------------------------------------
\* The arguments of a call.  A name and a key are sequences of characters; an
\* endpoint is given by what url.Parse makes of it; a ttl is in milliseconds.
LowerCase == {"a", "z"}
UpperCase == {"A", "Z"}
Digits == {"0", "9"}

Rep(c, n) == [k \in 1..n |-> c]

Names ==
    {<<"a", "z">>, <<"-", "a">>, <<"a", "z", "9">>, <<"A", "-", "Z">>, <<"a", "-", "z">>,
     <<"a", "-", "-", "z">>, <<"-", "a", "z">>, <<"a", "z", "-">>, <<"a", "_", "z">>,
     Rep("a", 58), Rep("Z", 58), Rep("a", 59)}

Keys ==
    {<<>>, <<"a", "Z", "0", "9">>, <<"a", "Z", "0">>, <<"a", "-", "_", "9">>}

TTLs == {14999, 15000, 60000, 60001}

URLs ==
    {[parses |-> FALSE, Scheme |-> "", Path |-> ""],
     [parses |-> TRUE, Scheme |-> "http", Path |-> ""],
     [parses |-> TRUE, Scheme |-> "https", Path |-> "/sub"],
     [parses |-> TRUE, Scheme |-> "https", Path |-> ""]}

BehaviorLists ==
    {<<>>, <<AutoRenewLock>>, <<RetryObtainingLock, AutoRenewLock>>,
     <<UnlockWhenContextCancelled, PanicOnLostLock>>}

Configs ==
    [storageAccountURL : URLs, storageAccountKey : Keys, lockName : Names,
     lockTTL : TTLs, behavior : BehaviorLists]

\* strings.ToLower
ToLower(s) ==
    [k \in 1..Len(s) |-> CASE s[k] = "A" -> "a" [] s[k] = "Z" -> "z" [] OTHER -> s[k]]

\* validLockNameRegex: ^[a-z0-9]+(-[a-z0-9]+)*$
MatchValidLockNameRegex(s) ==
    /\ Len(s) > 0
    /\ \A k \in 1..Len(s) : s[k] \in LowerCase \cup Digits \cup {"-"}
    /\ s[1] # "-" /\ s[Len(s)] # "-"
    /\ \A k \in 1..(Len(s) - 1) : ~(s[k] = "-" /\ s[k + 1] = "-")

\* variant: the name is matched as it was given, not in lower case
IsValidLockName_AsGiven(lockName) ==
    IF Len(lockName) < 3 \/ Len(lockName) > 58 THEN "name_length"
    ELSE IF ~MatchValidLockNameRegex(lockName) THEN "name_pattern"
    ELSE "nil"

\* IsValidLockName: the error it returns, or "nil"
IsValidLockName(lockName) ==
    LET lower == ToLower(lockName) IN
    IF Len(lower) < 3 \/ Len(lower) > 58 THEN "name_length"
    ELSE IF ~MatchValidLockNameRegex(lower) THEN "name_pattern"
    ELSE "nil"

\* base64.StdEncoding.DecodeString succeeds (keys without padding)
Base64Decodes(key) ==
    /\ Len(key) % 4 = 0
    /\ \A k \in 1..Len(key) : key[k] \in LowerCase \cup UpperCase \cup Digits \cup {"+", "/"}

\* variant: the ttl is checked before the key
ConfigError_TtlFirst(c) ==
    IF c.lockTTL < 15000 \/ c.lockTTL > 60000 THEN "ttl_range"
    ELSE IF c.storageAccountKey = <<>> THEN "key_empty"
    ELSE IF IsValidLockName(c.lockName) # "nil" THEN IsValidLockName(c.lockName)
    ELSE IF ~c.storageAccountURL.parses THEN "url_parse"
    ELSE IF c.storageAccountURL.Scheme # "https" THEN "url_scheme"
    ELSE IF c.storageAccountURL.Path # "" THEN "url_path"
    ELSE IF ~Base64Decodes(c.storageAccountKey) THEN "key_base64"
    ELSE "nil"

\* the checks at the head of NewLockInstance: the error returned, or "nil"
ConfigError(c) ==
    IF c.storageAccountKey = <<>> THEN "key_empty"
    ELSE IF c.lockTTL < 15000 \/ c.lockTTL > 60000 THEN "ttl_range"
    ELSE IF IsValidLockName(c.lockName) # "nil" THEN IsValidLockName(c.lockName)
    ELSE IF ~c.storageAccountURL.parses THEN "url_parse"
    ELSE IF c.storageAccountURL.Scheme # "https" THEN "url_scheme"
    ELSE IF c.storageAccountURL.Path # "" THEN "url_path"
    ELSE IF ~Base64Decodes(c.storageAccountKey) THEN "key_base64"
    ELSE "nil"

\* the answers of storage to containerURL.Create and to PutBlob: "ok", the
\* ServiceCode of a StorageError, or an error that is no StorageError
ContainerAnswers ==
    {"ok", "ContainerAlreadyExists", "ContainerBeingDeleted", "AuthenticationFailed",
     "not_storage_error"}

BlobAnswers ==
    {"ok", "BlobAlreadyExists", "LeaseIdMissing", "ContainerNotFound",
     "AuthenticationFailed", "not_storage_error"}

\* variant: only a plain ok of containerURL.Create lets NewLockInstance go on
ContainerError_OnlyOk(ans) == IF ans = "ok" THEN "nil" ELSE ans

\* the error NewLockInstance returns for an answer of containerURL.Create
ContainerError(ans) ==
    IF ans = "ok" THEN "nil"
    ELSE IF ans = "not_storage_error" THEN ans
    ELSE IF ans # "ContainerAlreadyExists" THEN ans
    ELSE "nil"

\* the error NewLockInstance returns for an answer of PutBlob
BlobError(ans) ==
    IF ans = "ok" THEN "nil"
    ELSE IF ans = "not_storage_error" THEN ans
    ELSE IF ans # "BlobAlreadyExists" /\ ans # "LeaseIdMissing" THEN ans
    ELSE "nil"

defaultLockBehaviorsList ==
    <<AutoRenewLock, PanicOnLostLock, UnlockWhenContextCancelled, RetryObtainingLock>>

\* variant: the default behaviors are applied after the ones the caller gave
AppliedBehaviors_DefaultsToo(behavior) == behavior \o defaultLockBehaviorsList

\* if len(behavior) == 0 { behavior = defaultLockBehaviors }
AppliedBehaviors(behavior) ==
    IF Len(behavior) = 0 THEN defaultLockBehaviorsList ELSE behavior

\* for _, b := range behavior { lockInstance = b(lockInstance) }: the behaviors
\* in the order the loop has applied them, from element k on
RECURSIVE ApplyBehaviors(_, _, _)
ApplyBehaviors(behavior, k, applied) ==
    IF k > Len(behavior) THEN applied
    ELSE ApplyBehaviors(behavior, k + 1, Append(applied, behavior[k]))

\* the names NewLockInstance addresses storage by
lockBlobNamePrefix == <<"a", "z", "l", "k", "-">>
lockContainerName == "azlockcontainer"

\* containerURL.NewBlobURL(lockBlobNamePrefix + lockName)
BlobName(lockName) == lockBlobNamePrefix \o lockName

Range(s) == {s[k] : k \in 1..Len(s)}

lockVars ==
    <<lockAcquired, used, cancelled, parentDone, LockLost, internalMutex, res,
      retriesLeft, opsLeft, ticksLeft, calls, lastReq, lossSent, panicCalls,
      lease, transportFaulty, leaseExpired>>

NewCall(c) ==
    [at |-> "start", cfg |-> c, err |-> "nil", storage |-> <<>>, container |-> "",
     blob |-> <<>>, applied |-> <<>>, instance |-> "nil"]

\* NewLockInstance is called: no instance yet
InitNew ==
    /\ InitWith({}, {[i \in Instances |-> {}]}, FALSE, [i \in Instances |-> 0], 0)
    /\ \E c \in Configs : newCall = NewCall(c)
    /\ startCall = NoCall /\ syncCall = NoCall

\* the argument checks
NewValidate ==
    /\ newCall.at = "start"
    /\ newCall' = [newCall EXCEPT
                      !.err = ConfigError(newCall.cfg),
                      !.at = IF ConfigError(newCall.cfg) = "nil"
                                THEN "container" ELSE "returned"]
    /\ UNCHANGED <<live, behaviors, pc, lockVars, appVars>>

\* containerURL.Create(ctxParent, ...)
NewContainerCreate ==
    /\ newCall.at = "container"
    /\ \E ans \in ContainerAnswers :
          newCall' = [newCall EXCEPT
                         !.container = lockContainerName,
                         !.storage = Append(@, [call |-> "createContainer", ans |-> ans]),
                         !.err = ContainerError(ans),
                         !.at = IF ContainerError(ans) = "nil" THEN "blob" ELSE "returned"]
    /\ UNCHANGED <<live, behaviors, pc, lockVars, appVars>>

\* blobURL.ToBlockBlobURL().PutBlob(ctxParent, ...)
NewPutBlob ==
    /\ newCall.at = "blob"
    /\ \E ans \in BlobAnswers :
          newCall' = [newCall EXCEPT
                         !.blob = BlobName(newCall.cfg.lockName),
                         !.storage = Append(@, [call |-> "createObject", ans |-> ans]),
                         !.err = BlobError(ans),
                         !.at = IF BlobError(ans) = "nil" THEN "instance" ELSE "returned"]
    /\ UNCHANGED <<live, behaviors, pc, lockVars, appVars>>

\* lockInstance := &Lock{...}; the behaviors are applied (their goroutines
\* start); return lockInstance, nil
NewInstance(i) ==
    /\ newCall.at = "instance"
    /\ i \notin live
    /\ live' = live \cup {i}
    /\ LET applied == ApplyBehaviors(AppliedBehaviors(newCall.cfg.behavior), 1, <<>>) IN
          /\ behaviors' = [behaviors EXCEPT ![i] = Range(applied)]
          /\ pc' = [pc EXCEPT ![i] = InitPc(Range(applied))]
          /\ newCall' = [newCall EXCEPT !.at = "returned", !.applied = applied,
                                        !.instance = i]
    /\ UNCHANGED <<lockVars, appVars>>

NextNew ==
    \/ NewValidate
    \/ NewContainerCreate
    \/ NewPutBlob
    \/ NewInstance("a")

SpecNew == InitNew /\ [][NextNew]_vars

\* ---- a second instance for the same blob -------------------------------------------
\* Instance "a" is used by its owner; when its Unlock() has returned nil,
\* NewLockInstance is called again for the same lock name, as getLock of the
\* syncer does at every Sync, and the owner of the new instance calls Lock().
\* Storage answers every request by the state of the lease, the lease does not run
\* out and no parent context is cancelled.
FreshConfig ==
    [storageAccountURL |-> [parses |-> TRUE, Scheme |-> "https", Path |-> ""],
     storageAccountKey |-> <<"a", "Z", "0", "9">>,
     lockName |-> <<"a", "-", "z">>,
     lockTTL |-> 15000,
     behavior |-> <<>>]

FreshOps == [i \in Instances |-> IF i = "a" THEN MaxOwnerOps ELSE 1]

InitFresh ==
    /\ InitWith({"a"}, HeldBehaviors, FALSE, FreshOps, MaxTicks - 1)
    /\ newCall = NoCall
    /\ startCall = NoCall /\ syncCall = NoCall

\* the answers of storage to containerURL.Create and to PutBlob when the container
\* and the blob exist: a blob under a lease takes no PutBlob without the lease id
ContainerExistsAnswers == {"ContainerAlreadyExists"}
BlobExistsAnswers ==
    IF lease = NoLease THEN {"ok", "BlobAlreadyExists"} ELSE {"LeaseIdMissing"}

\* NewLockInstance is called after Unlock() of the first instance returned nil
FreshNewLockInstance ==
    /\ newCall = NoCall
    /\ pc["a"][Owner] = "idle"
    /\ res["a"][Owner] = [op |-> "Unlock", r |-> "ok"]
    /\ newCall' = NewCall(FreshConfig)
    /\ UNCHANGED <<live, behaviors, pc, lockVars, appVars>>

FreshContainerCreate ==
    /\ NewContainerCreate
    /\ newCall'.storage[Len(newCall'.storage)].ans \in ContainerExistsAnswers

FreshPutBlob ==
    /\ NewPutBlob
    /\ newCall'.storage[Len(newCall'.storage)].ans \in BlobExistsAnswers

NextFresh ==
    \/ \E i \in Instances, op \in {"Lock", "Renew", "Unlock"} : OwnerCall(i, op)
    \/ \E i \in Instances : RetryAgain(i)
    \/ \E i \in Instances : RetryStop(i)
    \/ \E i \in Instances : OwnerReceivesLockLost(i)
    \/ \E i \in Instances, t \in Tasks : LockCall(i, t)
    \/ \E i \in Instances, t \in Tasks : LockFinish(i, t)
    \/ \E i \in Instances, t \in Tasks : RenewCall(i, t)
    \/ \E i \in Instances, t \in Tasks : RenewFinish(i, t)
    \/ \E i \in Instances, t \in Tasks : UnlockCall(i, t)
    \/ \E i \in Instances, t \in Tasks : UnlockFinish(i, t)
    \/ \E i \in Instances, t \in Watchers : SelectDone(i, t)
    \/ \E i \in Instances, t \in Watchers : SelectLockLost(i, t)
    \/ \E i \in Instances : SelectTick(i)
    \/ \E i \in Instances : RenewFailed(i)
    \/ \E i \in Instances : SendLockLost(i)
    \/ \E i \in Instances : Panic(i)
    \/ FreshNewLockInstance
    \/ NewValidate
    \/ FreshContainerCreate
    \/ FreshPutBlob
    \/ NewInstance("b")

SpecFresh == InitFresh /\ [][NextFresh]_vars

\* ---- controller.Start and Synchronizer.Sync -------------------------------------
\* The annotations of an object are a map, given as the set of its pairs of key
\* and value.  A service carries the entries of Status.LoadBalancer.Ingress; an
\* entry of a load balancer known by host name only has the IP "".
AnnotationMaps ==
    {{}, {<<"azure/frontdoor", "enabled">>}, {<<"azure/frontdoor", "disabled">>},
     {<<"other", "enabled">>}}

LoadBalancerIngress == {<<>>, <<[IP |-> "10.0.0.1"]>>, <<[IP |-> ""]>>}

Services == [Annotations : AnnotationMaps, Ingress : LoadBalancerIngress]

\* serviceStore.List() and ingressStore.List(), in the order the store gives them
ServiceLists ==
    {<<>>} \cup {<<s>> : s \in Services} \cup {<<s, t>> : s \in Services, t \in Services}

IngressLists ==
    {<<>>} \cup {<<[Name |-> "i1", Annotations |-> a]>> : a \in AnnotationMaps}
           \cup {<<[Name |-> "i1", Annotations |-> a], [Name |-> "i2", Annotations |-> b]>> :
                    a \in AnnotationMaps, b \in AnnotationMaps}

\* annotation, exists := annotations["azure/frontdoor"]; exists && annotation == "enabled"
hasFrontdoorEnabledAnnotation(annotations) ==
    \E p \in annotations : p[1] = "azure/frontdoor" /\ p[2] = "enabled"

\* the loop of getServiceIP from service k on: serviceIP is overwritten by every
\* annotated service that has a load-balancer entry
RECURSIVE ServiceIPLoop(_, _, _)
ServiceIPLoop(services, k, serviceIP) ==
    IF k > Len(services) THEN serviceIP
    ELSE ServiceIPLoop(services, k + 1,
             IF /\ hasFrontdoorEnabledAnnotation(services[k].Annotations)
                /\ Len(services[k].Ingress) > 0
                THEN services[k].Ingress[1].IP
                ELSE serviceIP)

\* getServiceIP: the IP and the error
getServiceIP(services) ==
    LET serviceIP == ServiceIPLoop(services, 1, "") IN
    [ip |-> serviceIP, err |-> IF serviceIP = "" THEN "no_service" ELSE "nil"]

\* the loop of Start over ingressStore.List() from ingress k on
RECURSIVE IngressLoop(_, _, _)
IngressLoop(list, k, ingressToSync) ==
    IF k > Len(list) THEN ingressToSync
    ELSE IngressLoop(list, k + 1,
             IF ~hasFrontdoorEnabledAnnotation(list[k].Annotations)
                THEN ingressToSync
                ELSE Append(ingressToSync, list[k]))

StartCall(services, ingresses) ==
    [at |-> "resync", services |-> services, ingressStore |-> ingresses,
     serviceIP |-> "", ingressToSync |-> <<>>, syncs |-> <<>>,
     ret |-> [list |-> "none", err |-> "none"]]

SyncCall(ingressToSync) ==
    [at |-> "getLock", ingressToSync |-> ingressToSync, trace |-> <<>>,
     fdState |-> "none", updated |-> "none", err |-> "nil"]

\* what the front door holds when getCurrentState reads it
FrontDoorStates ==
    {[RoutingRules |-> "nil"], [RoutingRules |-> <<>>],
     [RoutingRules |-> <<[Name |-> <<"existing">>]>>]}

\* err := ingressStore.Resync()
StartResync ==
    /\ startCall # NoCall
    /\ startCall.at = "resync"
    /\ \E err \in {"nil", "resync_error"} :
          startCall' = [startCall EXCEPT
                           !.at = IF err = "nil" THEN "getServiceIP" ELSE "returned",
                           !.ret = IF err = "nil" THEN @ ELSE [list |-> "nil", err |-> err]]
    /\ UNCHANGED <<syncCall, newCall, live, behaviors, pc, lockVars>>

\* serviceIP, err := getServiceIP(ctx, serviceStore)
StartGetServiceIP ==
    /\ startCall # NoCall
    /\ startCall.at = "getServiceIP"
    /\ LET r == getServiceIP(startCall.services) IN
          startCall' = [startCall EXCEPT
                           !.serviceIP = r.ip,
                           !.at = IF r.err = "nil" THEN "ingresses" ELSE "returned",
                           !.ret = IF r.err = "nil" THEN @
                                   ELSE [list |-> "nil", err |-> r.err]]
    /\ UNCHANGED <<syncCall, newCall, live, behaviors, pc, lockVars>>

\* the annotated ingresses are collected and provider.Sync is called with them
StartSync ==
    /\ startCall # NoCall
    /\ startCall.at = "ingresses"
    /\ LET ingressToSync == IngressLoop(startCall.ingressStore, 1, <<>>) IN
          /\ startCall' = [startCall EXCEPT
                              !.ingressToSync = ingressToSync,
                              !.syncs = Append(@, ingressToSync),
                              !.at = "Sync"]
          /\ syncCall' = SyncCall(ingressToSync)
    /\ UNCHANGED <<newCall, live, behaviors, pc, lockVars>>

\* provider.Sync has returned: Start returns nil and the error, or the list
StartReturn ==
    /\ startCall # NoCall
    /\ startCall.at = "Sync"
    /\ syncCall.at = "returned"
    /\ startCall' = [startCall EXCEPT
                        !.at = "returned",
                        !.ret = IF syncCall.err # "nil"
                                   THEN [list |-> "nil", err |-> syncCall.err]
                                   ELSE [list |-> startCall.ingressToSync, err |-> "nil"]]
    /\ UNCHANGED <<syncCall, newCall, live, behaviors, pc, lockVars>>

\* lock, err := p.getLock(): NewLockInstance and lock.Lock() of the new instance;
\* on an error Sync returns it, else Unlock is deferred
SyncGetLock ==
    /\ syncCall # NoCall
    /\ syncCall.at = "getLock"
    /\ \E r \in {"nil", "NewLockInstance_error", "Lock_error"} :
          syncCall' = [syncCall EXCEPT
                          !.trace = Append(@, [call |-> "getLock", r |-> r]),
                          !.err = r,
                          !.at = IF r = "nil" THEN "getCurrentState" ELSE "returned"]
    /\ UNCHANGED <<startCall, newCall, live, behaviors, pc, lockVars>>

\* variant: an error of getCurrentState returns before Unlock was deferred
SyncGetCurrentState_NoDefer ==
    /\ syncCall # NoCall
    /\ syncCall.at = "getCurrentState"
    /\ \/ syncCall' = [syncCall EXCEPT
                          !.trace = Append(@, [call |-> "getCurrentState", r |-> "get_error"]),
                          !.err = "get_error",
                          !.at = "returned"]
       \/ \E fd \in FrontDoorStates :
             syncCall' = [syncCall EXCEPT
                             !.trace = Append(@, [call |-> "getCurrentState", r |-> "nil"]),
                             !.fdState = fd,
                             !.at = "updateState"]
    /\ UNCHANGED <<startCall, newCall, live, behaviors, pc, lockVars>>

\* fdState, err := p.getCurrentState(ctx); on an error Sync returns it
SyncGetCurrentState ==
    /\ syncCall # NoCall
    /\ syncCall.at = "getCurrentState"
    /\ \/ syncCall' = [syncCall EXCEPT
                          !.trace = Append(@, [call |-> "getCurrentState", r |-> "get_error"]),
                          !.err = "get_error",
                          !.at = "deferred"]
       \/ \E fd \in FrontDoorStates :
             syncCall' = [syncCall EXCEPT
                             !.trace = Append(@, [call |-> "getCurrentState", r |-> "nil"]),
                             !.fdState = fd,
                             !.at = "updateState"]
    /\ UNCHANGED <<startCall, newCall, live, behaviors, pc, lockVars>>

\* the routing rules of the ingresses: every ingress of the model has one rule
RECURSIVE RulesLoop(_, _, _)
RulesLoop(ingressToSync, k, rulesToAdd) ==
    IF k > Len(ingressToSync) THEN rulesToAdd
    ELSE RulesLoop(ingressToSync, k + 1,
             Append(rulesToAdd, [Name |-> <<"Ingress-", ingressToSync[k].Name>>]))

\* the rules are appended to fdState.RoutingRules; _, err = p.updateState(ctx,
\* fdState); return err
SyncUpdateState ==
    /\ syncCall # NoCall
    /\ syncCall.at = "updateState"
    /\ LET rulesToAdd == RulesLoop(syncCall.ingressToSync, 1, <<>>)
           rules == IF syncCall.fdState.RoutingRules # "nil"
                       THEN syncCall.fdState.RoutingRules \o rulesToAdd
                       ELSE rulesToAdd
       IN  \E r \in {"nil", "update_error"} :
              syncCall' = [syncCall EXCEPT
                              !.trace = Append(@, [call |-> "updateState", r |-> r]),
                              !.updated = [RoutingRules |-> rules],
                              !.err = r,
                              !.at = "deferred"]
    /\ UNCHANGED <<startCall, newCall, live, behaviors, pc, lockVars>>

\* the deferred lock.Unlock(); its error is dropped
SyncDeferredUnlock ==
    /\ syncCall # NoCall
    /\ syncCall.at = "deferred"
    /\ \E r \in {"nil", "Unlock_error"} :
          syncCall' = [syncCall EXCEPT
                          !.trace = Append(@, [call |-> "Unlock", r |-> r]),
                          !.at = "returned"]
    /\ UNCHANGED <<startCall, newCall, live, behaviors, pc, lockVars>>

\* Start is called for a namespace whose stores hold these services and ingresses
InitStart ==
    /\ InitWith({}, {[i \in Instances |-> {}]}, FALSE, [i \in Instances |-> 0], 0)
    /\ newCall = NoCall
    /\ \E services \in ServiceLists, ingresses \in IngressLists :
          startCall = StartCall(services, ingresses)
    /\ syncCall = NoCall

NextStart ==
    \/ StartResync
    \/ StartGetServiceIP
    \/ StartSync
    \/ StartReturn
    \/ SyncGetLock
    \/ SyncGetCurrentState
    \/ SyncUpdateState
    \/ SyncDeferredUnlock

SpecStart == InitStart /\ [][NextStart]_vars

TypeOK ==
    /\ lockAcquired \in [Instances -> BOOLEAN]
    /\ used \in [Instances -> BOOLEAN]
    /\ \A i \in Instances : LockLost[i] \in 0..LockLostCap
    /\ lease \in {NoLease} \cup {LockID(i) : i \in Instances}

\* ---- properties ------------------------------------------------------------------
\* goroutine t of instance i leaves position loc in this step
Leaves(i, t, loc) == pc[i][t] = loc /\ pc'[i][t] # loc

\* instance i puts no lease request on the wire in this step
NoRequest(i) == calls'[i] = calls[i] /\ lastReq' = lastReq /\ lease' = lease

\* instance i puts exactly one request of this kind on the wire, under its LockID
OneRequest(i, kind) ==
    /\ lastReq'.seq # lastReq.seq
    /\ lastReq'.by = i /\ lastReq'.kind = kind /\ lastReq'.id = LockID(i)
    /\ calls'[i][kind] > 0
    /\ calls'[i][kind] >= calls[i][kind]
    /\ \A k \in {"acquire", "renew", "release"} \ {kind} : calls'[i][k] = calls[i][k]

Failed(r) == r.r \in {"misuse", "error"}

\* C1: two instances made for the same lock name are never both Acquired and
\* not Released at the same time.
C1_Original ==
    \A i, j \in live : i # j => ~(Acquired(i) /\ Acquired(j))

\* storage has accepted a releaseLease of instance i
ReleasedOnStorage(i) ==
    used[i] \/ \E t \in Tasks : pc[i][t] = "Unlock_fin" /\ res[i][t].r = "ok"

\* the Lock() of instance j is inside backoff.Retry and has an attempt to come
InsideRetryBudget(j) ==
    /\ RetryObtainingLock \in behaviors[j]
    /\ \/ pc[j][Owner] = "Lock_wait"
       \/ pc[j][Owner] \in {"Lock_fin", "retry"} /\ retriesLeft[j] > 0

\* C2: while no lease runs out, the Lock() of one instance succeeds beside an
\* instance that has Lock()ed only once storage has accepted that instance's
\* release; and once the first is Released while the Lock() of the second is
\* inside its retries, the Lock() of the second succeeds in the end.
C2_Contention ==
    /\ [](\A i, j \in live :
            (i # j /\ lockAcquired[i] /\ lockAcquired[j] /\ ~leaseExpired) =>
                (ReleasedOnStorage(i) \/ ReleasedOnStorage(j)))
    /\ \A i, j \in Instances :
          (i # j /\ Released(i) /\ InsideRetryBudget(j)) ~> lockAcquired[j]

\* C2 witness: the second instance's Lock() failed while the first held the
\* lease, was retried, and succeeded after the first instance's Unlock()
C2_Witness ==
    \E i, j \in live :
        /\ i # j
        /\ Released(i)
        /\ ~leaseExpired
        /\ pc[j][Owner] = "idle"
        /\ res[j][Owner] = [op |-> "Lock", r |-> "ok"]
        /\ Acquired(j)
        /\ calls[j].acquire = 2
        /\ retriesLeft[j] < MaxRetry

\* C3: Lock() on an instance that is Acquired returns an error, sends no
\* acquireLease and leaves the instance Acquired; under RetryObtainingLock the
\* error is still an error when the retries end.
C3_LockOnAcquired ==
    [][\A i \in Instances, t \in Tasks :
          /\ (Leaves(i, t, "Lock_wait") /\ Acquired(i)) =>
                /\ res'[i][t] = [op |-> "Lock", r |-> "misuse"]
                /\ pc'[i][t] \in {"idle", "retry"}
                /\ NoRequest(i)
                /\ Acquired(i)'
          /\ Leaves(i, t, "retry") => (Failed(res[i][t]) /\ res'[i][t] = res[i][t])
      ]_vars

\* C3 witness: the owner's Lock() has returned the state error on an Acquired
\* instance
C3_Witness ==
    \E i \in Instances :
        /\ pc[i][Owner] = "idle"
        /\ res[i][Owner] = [op |-> "Lock", r |-> "misuse"]
        /\ Acquired(i)
        /\ calls[i].acquire = 1

\* C4: Unlock() on an Idle or a Released instance returns an error, sends no
\* releaseLease, leaves both flags as they are and does not cancel the scope.
C4_UnlockNotAcquired ==
    [][\A i \in Instances, t \in Tasks :
          (Leaves(i, t, "Unlock_wait") /\ (Idle(i) \/ Released(i))) =>
              /\ res'[i][t] = [op |-> "Unlock", r |-> "misuse"]
              /\ NoRequest(i)
              /\ lockAcquired'[i] = lockAcquired[i]
              /\ used'[i] = used[i]
              /\ cancelled'[i] = cancelled[i]
      ]_vars

\* C4 witness: Unlock() has failed on an Idle instance whose watchers are all
\* still waiting in their select
C4_Witness ==
    \E i \in Instances :
        /\ res[i][Owner] = [op |-> "Unlock", r |-> "misuse"]
        /\ Idle(i)
        /\ ~ctxDone(i)
        /\ behaviors[i] = defaultLockBehaviors
        /\ \A t \in Watchers : pc[i][t] = "select"

\* C5: Released is terminal: used is never reset, and every Lock() or Renew()
\* body that runs on a Released instance returns an error and sends no request.
C5_ReleasedIsTerminal ==
    [][\A i \in Instances :
          /\ used[i] => used'[i]
          /\ \A t \in Tasks :
                (Released(i) /\ (Leaves(i, t, "Lock_wait") \/ Leaves(i, t, "Renew_wait"))) =>
                    /\ res'[i][t].r = "misuse"
                    /\ NoRequest(i)
      ]_vars

\* C5 witness: after a successful Unlock() the owner's Lock() has failed
C5_Witness ==
    \E i \in Instances :
        /\ Released(i)
        /\ pc[i][Owner] = "idle"
        /\ res[i][Owner] = [op |-> "Lock", r |-> "misuse"]
        /\ calls[i].release >= 1

\* C6: Unlock() from Acquired sends exactly one releaseLease under the LockID of
\* the instance; when it is answered ok, Unlock() returns no error, the instance
\* is Released and the scope is cancelled, which every watcher's select sees.
C6_UnlockReleases ==
    /\ [](\A i \in Instances, w \in Watchers :
            (cancelled[i] /\ pc[i][w] = "select") => ENABLED SelectDone(i, w))
    /\ [][\A i \in Instances, t \in Tasks :
            /\ (Leaves(i, t, "Unlock_wait") /\ Acquired(i)) =>
                  /\ pc'[i][t] = "Unlock_fin"
                  /\ OneRequest(i, "release")
            /\ (Leaves(i, t, "Unlock_fin") /\ res[i][t].r = "ok") =>
                  /\ res'[i][t] = [op |-> "Unlock", r |-> "ok"]
                  /\ NoRequest(i)
                  /\ Released(i)'
                  /\ cancelled'[i]
                  /\ ctxDone(i)'
        ]_vars

\* C6 witness: the owner's Unlock() has returned ok after one releaseLease
C6_Witness ==
    \E i \in Instances :
        /\ pc[i][Owner] = "idle"
        /\ res[i][Owner] = [op |-> "Unlock", r |-> "ok"]
        /\ Released(i)
        /\ cancelled[i]
        /\ calls[i].release = 1
        /\ lease = NoLease

\* C7: Renew() on an Idle or Released instance returns an error and sends no
\* renewLease; from Acquired it sends one renewLease under the LockID of the
\* instance, and when that is answered ok the flags and the scope stay as they are.
C7_RenewOnlyFromAcquired ==
    [][\A i \in Instances, t \in Tasks :
          /\ (Leaves(i, t, "Renew_wait") /\ ~Acquired(i)) =>
                /\ res'[i][t] = [op |-> "Renew", r |-> "misuse"]
                /\ NoRequest(i)
          /\ (Leaves(i, t, "Renew_wait") /\ Acquired(i)) =>
                /\ pc'[i][t] = "Renew_fin"
                /\ OneRequest(i, "renew")
          /\ (Leaves(i, t, "Renew_fin") /\ res[i][t].r = "ok") =>
                /\ res'[i][t] = [op |-> "Renew", r |-> "ok"]
                /\ NoRequest(i)
                /\ lockAcquired'[i] = lockAcquired[i]
                /\ used'[i] = used[i]
                /\ cancelled'[i] = cancelled[i]
      ]_vars

\* C7 witness: the owner's Renew() has succeeded on an Acquired instance, after
\* an earlier Renew() on the Idle instance was refused
C7_Witness ==
    \E i \in Instances :
        /\ pc[i][Owner] = "idle"
        /\ res[i][Owner] = [op |-> "Renew", r |-> "ok"]
        /\ Acquired(i)
        /\ ~cancelled[i]
        /\ calls[i].renew = 1
        /\ opsLeft[i] = MaxOwnerOps - 3

\* C8: a tick of AutoRenewLock on an instance whose lockAcquired is set calls
\* Renew() once; a Renew() of AutoRenewLock that succeeds leaves the instance
\* as it is (flags, scope, LockLost) and returns to the select; no loss is
\* notified as long as no Renew() of AutoRenewLock has failed.
C8_AutoRenewKeepsAcquired ==
    /\ [][\A i \in Instances :
            /\ (pc[i][AutoRenewLock] = "select" /\ ticksLeft'[i] # ticksLeft[i]) =>
                  (lockAcquired[i] /\ pc'[i][AutoRenewLock] = "Renew_wait")
            /\ (Leaves(i, AutoRenewLock, "Renew_wait") /\ Acquired(i)) =>
                  OneRequest(i, "renew")
            /\ (Leaves(i, AutoRenewLock, "Renew_fin") /\ res[i][AutoRenewLock].r = "ok") =>
                  /\ pc'[i][AutoRenewLock] = "select"
                  /\ lockAcquired'[i] = lockAcquired[i]
                  /\ used'[i] = used[i]
                  /\ cancelled'[i] = cancelled[i]
                  /\ LockLost'[i] = LockLost[i]
                  /\ lossSent'[i] = lossSent[i]
        ]_vars
    /\ [](\A i \in Instances :
            ~Failed(res[i][AutoRenewLock]) =>
                /\ lossSent[i] = 0
                /\ LockLost[i] = 0
                /\ pc[i][AutoRenewLock] \notin {"renew_failed", "send_lost"})

\* C8 witness: two ticks in a row have renewed the lease, the instance is still
\* Acquired, its scope is not cancelled and nothing was sent on LockLost
C8_Witness ==
    \E i \in Instances :
        /\ pc[i][AutoRenewLock] = "select"
        /\ res[i][AutoRenewLock] = [op |-> "Renew", r |-> "ok"]
        /\ ticksLeft[i] <= MaxTicks - 2
        /\ calls[i].renew >= 2
        /\ Acquired(i)
        /\ ~ctxDone(i)
        /\ lossSent[i] = 0
        /\ LockLost[i] = 0

\* C9: at most one goroutine of an instance is inside a Lock, Renew or Unlock
\* body, and it is the holder of internalMutex; every write of lockAcquired or
\* used and every lease request is made by the holder of internalMutex.
C9_BodiesSerialized ==
    /\ [](\A i \in Instances :
            /\ Cardinality({t \in Tasks : pc[i][t] \in InBody}) <= 1
            /\ \A t \in Tasks : pc[i][t] \in InBody <=> internalMutex[i] = t)
    /\ [][\A i \in Instances :
            /\ (lockAcquired'[i] # lockAcquired[i] \/ used'[i] # used[i]) =>
                  /\ internalMutex[i] # Free
                  /\ Leaves(i, internalMutex[i], pc[i][internalMutex[i]])
            /\ calls'[i] # calls[i] =>
                  /\ internalMutex[i] = Free
                  /\ internalMutex'[i] # Free
                  /\ pc'[i][internalMutex'[i]] \in InBody
        ]_vars

\* C9 witness: one goroutine is inside a body while another one waits for
\* internalMutex
C9_Witness ==
    \E i \in Instances : \E t1, t2 \in Tasks :
        /\ t1 # t2
        /\ internalMutex[i] = t1
        /\ pc[i][t1] \in InBody
        /\ pc[i][t2] \in {"Lock_wait", "Renew_wait", "Unlock_wait"}

\* an Unlock() that got past the state checks (it was issued from Acquired and
\* sent a releaseLease) has returned
UnlockCompleted(i) ==
    calls[i].release > Cardinality({t \in Tasks : pc[i][t] = "Unlock_fin"})

\* watcher t of instance i puts a lease request on the wire in this step
WatcherRequests(i, t) ==
    /\ pc[i][t] \in {"Lock_wait", "Renew_wait", "Unlock_wait"}
    /\ pc'[i][t] \in InBody

InRenew == {"Renew_wait", "Renew_fin"}

\* the positions of AutoRenewLock after a Renew() of its own has failed
AfterFailedRenew == {"renew_failed", "send_lost", "done"}

\* C11: when a Renew() of AutoRenewLock returns an error, AutoRenewLock cancels
\* the scope, then sends one notification on LockLost (the send never blocks),
\* then returns and calls Renew() no more; an instance sends at most one
\* notification in its life.
C11_LossNotifiedOnce ==
    /\ [](\A i \in Instances :
            /\ lossSent[i] <= 1
            /\ pc[i][AutoRenewLock] = "send_lost" =>
                  (cancelled[i] /\ ENABLED SendLockLost(i)))
    /\ [][\A i \in Instances :
            /\ (pc[i][AutoRenewLock] \in InRenew /\ pc'[i][AutoRenewLock] \notin InRenew
                    /\ Failed(res'[i][AutoRenewLock])) =>
                  pc'[i][AutoRenewLock] = "renew_failed"
            /\ Leaves(i, AutoRenewLock, "renew_failed") =>
                  /\ cancelled'[i]
                  /\ pc'[i][AutoRenewLock] = "send_lost"
                  /\ lossSent'[i] = lossSent[i]
            /\ Leaves(i, AutoRenewLock, "send_lost") =>
                  /\ pc'[i][AutoRenewLock] = "done"
                  /\ lossSent'[i] = lossSent[i] + 1
                  /\ LockLost'[i] = LockLost[i] + 1
            /\ lossSent'[i] # lossSent[i] =>
                  (lossSent[i] = 0 /\ Leaves(i, AutoRenewLock, "send_lost"))
            /\ pc[i][AutoRenewLock] \in AfterFailedRenew =>
                  /\ pc'[i][AutoRenewLock] \in AfterFailedRenew
                  /\ calls'[i].renew # calls[i].renew => pc[i][Owner] = "Renew_wait"
        ]_vars

\* C11 witness: a RenewLease of AutoRenewLock was answered with an error, the
\* scope is cancelled, one notification was sent and AutoRenewLock has returned
C11_Witness ==
    \E i \in Instances :
        /\ res[i][AutoRenewLock] = [op |-> "Renew", r |-> "error"]
        /\ pc[i][AutoRenewLock] = "done"
        /\ cancelled[i]
        /\ lossSent[i] = 1
        /\ calls[i].renew >= 1

\* C12 as stated, where only the parent context cancels the scope (SpecHeld: no
\* request fails unless the scope is cancelled, so no Renew() of AutoRenewLock
\* fails before the cancellation): AutoRenewLock never comes to cancel again
\* and never sends a loss notification.
C12_Original ==
    \A i \in Instances :
        /\ pc[i][AutoRenewLock] \notin {"renew_failed", "send_lost"}
        /\ lossSent[i] = 0

\* the positions of a goroutine inside unlockContext
InUnlock == {"Unlock_wait", "Unlock_fin"}

\* C13: when PanicOnLostLock receives from LockLost it calls Unlock(); when
\* that Unlock() has returned, whatever its result, it calls l.panic; l.panic is
\* called after an Unlock() of PanicOnLostLock only, and at most once per
\* instance.
C13_UnlockThenPanic ==
    /\ [](\A i \in Instances : panicCalls[i] <= 1)
    /\ [][\A i \in Instances :
            /\ (Leaves(i, PanicOnLostLock, "select") /\ LockLost'[i] # LockLost[i]) =>
                  /\ pc'[i][PanicOnLostLock] = "Unlock_wait"
                  /\ panicCalls'[i] = panicCalls[i]
            /\ (pc[i][PanicOnLostLock] \in InUnlock
                    /\ pc'[i][PanicOnLostLock] \notin InUnlock) =>
                  /\ pc'[i][PanicOnLostLock] = "panic"
                  /\ res'[i][PanicOnLostLock].op = "Unlock"
                  /\ panicCalls'[i] = panicCalls[i]
            /\ Leaves(i, PanicOnLostLock, "panic") =>
                  /\ panicCalls'[i] = panicCalls[i] + 1
                  /\ pc'[i][PanicOnLostLock] = "done"
            /\ panicCalls'[i] # panicCalls[i] =>
                  /\ pc[i][PanicOnLostLock] = "panic"
                  /\ res[i][PanicOnLostLock].op = "Unlock"
                  /\ panicCalls[i] = 0
            /\ pc[i][PanicOnLostLock] = "done" => pc'[i][PanicOnLostLock] = "done"
        ]_vars

\* C13 witness: PanicOnLostLock took the loss notification, its Unlock() failed
\* (the scope is cancelled by then) and l.panic was called once
C13_Witness ==
    \E i \in Instances :
        /\ lossSent[i] = 1
        /\ LockLost[i] = 0
        /\ res[i][PanicOnLostLock] = [op |-> "Unlock", r |-> "error"]
        /\ pc[i][PanicOnLostLock] = "done"
        /\ panicCalls[i] = 1

\* C14 as stated: with the default behaviors, whenever a Renew() of
\* AutoRenewLock has failed on an Acquired instance, l.panic is called in the
\* end, whatever the order in which the goroutines run.
C14_Original ==
    \A i \in Instances :
        (/\ behaviors[i] = defaultLockBehaviors
         /\ pc[i][AutoRenewLock] = "renew_failed"
         /\ Acquired(i)) ~> (panicCalls[i] > 0)

\* the scope of instance i is cancelled and no Lock() of it has got the lease
CancelledUnlocked(i) ==
    /\ ctxDone(i)
    /\ ~lockAcquired[i]
    /\ \A t \in Tasks : ~(pc[i][t] = "Lock_fin" /\ res[i][t].r = "ok")

\* instance i puts a renewLease on the wire in this step
RenewRequest(i) ==
    lastReq' # lastReq /\ lastReq'.by = i /\ lastReq'.kind = "renew"

\* C15: a scope cancelled before any Lock() call leaves the instance cancelled
\* and without the lease for good, and from then on no watcher sends a lease
\* request, AutoRenewLock calls no Renew() and UnlockWhenContextCancelled
\* returns from its select without unlocking; no renewLease is sent at all for
\* an instance that is not Acquired.
C15_CancelledBeforeLock ==
    /\ [](\A i \in Instances :
            (ctxDone(i) /\ calls[i].acquire = 0) => CancelledUnlocked(i))
    /\ [][\A i \in Instances :
            /\ CancelledUnlocked(i) =>
                  /\ CancelledUnlocked(i)'
                  /\ \A t \in Watchers :
                        /\ ~WatcherRequests(i, t)
                        /\ Leaves(i, t, pc[i][t]) => NoRequest(i)
                  /\ pc'[i][AutoRenewLock] \notin InRenew
                  /\ Leaves(i, UnlockWhenContextCancelled, "select") =>
                        pc'[i][UnlockWhenContextCancelled] = "done"
            /\ ~Acquired(i) => ~RenewRequest(i)
        ]_vars

\* C15 witness: the parent context of an instance with the default behaviors was
\* cancelled before the owner made any call; all three watchers have returned
\* without running a body and the instance has sent no request
C15_Witness ==
    \E i \in Instances :
        /\ behaviors[i] = defaultLockBehaviors
        /\ parentDone[i] /\ ~cancelled[i]
        /\ \A t \in Watchers : pc[i][t] = "done" /\ res[i][t] = NoResult
        /\ opsLeft[i] = MaxOwnerOps
        /\ calls[i] = [acquire |-> 0, renew |-> 0, release |-> 0]
        /\ ~lockAcquired[i]

\* all watcher goroutines of instance i have returned
WatchersReturned(i) == \A t \in Watchers : pc[i][t] = "done"

\* C16 as stated, where the parent context is cancelled after a successful
\* Lock() and the owner calls no Unlock() (SpecHeld): the instance never sends
\* more than one releaseLease, and when all watchers have returned it has sent
\* exactly one.
C16_Original ==
    \A i \in Instances :
        (behaviors[i] = defaultLockBehaviors /\ parentDone[i]) =>
            /\ calls[i].release <= 1
            /\ WatchersReturned(i) => calls[i].release = 1

\* the positions of a goroutine inside the Lock body
InLock == {"Lock_wait", "Lock_fin"}

\* an attempt of the owner's Lock() returns in this step
AttemptReturns(i) == pc[i][Owner] \in InLock /\ pc'[i][Owner] \notin InLock

\* C17: with RetryObtainingLock, an attempt of Lock() that fails hands over to
\* backoff.Retry, which starts the next attempt as long as the policy grants one
\* and otherwise returns the error of the last attempt; an attempt that succeeds
\* makes Lock() return success at once; and every Lock() returns in the end.
C17_RetryTerminates ==
    /\ [][\A i \in Instances :
            RetryObtainingLock \in behaviors[i] =>
                /\ (AttemptReturns(i) /\ Failed(res'[i][Owner])) =>
                      /\ pc'[i][Owner] = "retry"
                      /\ retriesLeft'[i] = retriesLeft[i]
                /\ (AttemptReturns(i) /\ ~Failed(res'[i][Owner])) =>
                      /\ pc'[i][Owner] = "idle"
                      /\ res'[i][Owner] = [op |-> "Lock", r |-> "ok"]
                /\ (Leaves(i, Owner, "retry") /\ retriesLeft[i] > 0) =>
                      /\ pc'[i][Owner] = "Lock_wait"
                      /\ retriesLeft'[i] = retriesLeft[i] - 1
                /\ (Leaves(i, Owner, "retry") /\ retriesLeft[i] = 0) =>
                      /\ pc'[i][Owner] = "idle"
                      /\ res'[i][Owner] = res[i][Owner]
                      /\ res[i][Owner].op = "Lock"
                      /\ Failed(res[i][Owner])
        ]_vars
    /\ \A i \in Instances :
          (pc[i][Owner] \in InLock \cup {"retry"}) ~> (pc[i][Owner] = "idle")

\* C17 witness: every attempt of a Lock() with RetryObtainingLock has failed
\* while the other instance held the lease, the last attempt was a retry, and
\* Lock() has returned its error
C17_Witness ==
    \E i, j \in live :
        /\ i # j
        /\ RetryObtainingLock \in behaviors[i]
        /\ pc[i][Owner] = "idle"
        /\ res[i][Owner] = [op |-> "Lock", r |-> "error"]
        /\ calls[i].acquire = 2
        /\ retriesLeft[i] = 0
        /\ ~lockAcquired[i]
        /\ lease = LockID(j)

\* C18 as stated: a Lock() that finds the instance Acquired or Released returns
\* its state error to the caller at the first attempt: backoff.Retry starts no
\* further attempt after it, whatever the behavior set.
C18_Original ==
    [][\A i \in Instances :
          /\ (AttemptReturns(i) /\ res'[i][Owner].r = "misuse") =>
                pc'[i][Owner] \in {"idle", "retry"}
          /\ (Leaves(i, Owner, "retry") /\ res[i][Owner].r = "misuse") =>
                /\ pc'[i][Owner] = "idle"
                /\ res'[i][Owner] = res[i][Owner]
      ]_vars

\* the configuration checks in the order the contract lists them: whether the
\* check fails on c, and the error that tells it
ConfigChecks(c) ==
    << [fails |-> c.storageAccountKey = <<>>, err |-> {"key_empty"}],
       [fails |-> c.lockTTL < 15000 \/ c.lockTTL > 60000, err |-> {"ttl_range"}],
       [fails |-> IsValidLockName(c.lockName) # "nil",
        err |-> {"name_length", "name_pattern"}],
       [fails |-> ~c.storageAccountURL.parses, err |-> {"url_parse"}],
       [fails |-> c.storageAccountURL.parses /\ c.storageAccountURL.Scheme # "https",
        err |-> {"url_scheme"}],
       [fails |-> c.storageAccountURL.parses /\ c.storageAccountURL.Path # "",
        err |-> {"url_path"}],
       [fails |-> ~Base64Decodes(c.storageAccountKey), err |-> {"key_base64"}] >>

FailingChecks(c) == {k \in 1..Len(ConfigChecks(c)) : ConfigChecks(c)[k].fails}

FirstFailingCheck(c) ==
    CHOOSE k \in FailingChecks(c) : \A m \in FailingChecks(c) : k <= m

\* NewLockInstance has returned no instance and started no goroutine
NoInstance ==
    /\ newCall.instance = "nil"
    /\ live = {}
    /\ \A i \in Instances, t \in Watchers : pc[i][t] = "absent"

ContainerPresent == {"ok", "ContainerAlreadyExists"}
ObjectPresent == {"ok", "BlobAlreadyExists", "LeaseIdMissing"}

\* C20: createObject is sent only after createContainer answered ok or
\* AlreadyExists; NewLockInstance returns an instance (Idle, its behaviors
\* started) exactly when createContainer answered ok or AlreadyExists and
\* createObject answered ok, AlreadyExists or LeaseMissing; for every other
\* answer it returns that error, no instance, and has started no behavior.
C20_ProvisioningIdempotent ==
    LET st == newCall.storage IN
    (newCall.at # "none" /\ Len(st) > 0) =>
        /\ st[1].call = "createContainer"
        /\ Len(st) <= 2
        /\ Len(st) = 2 => (st[2].call = "createObject" /\ st[1].ans \in ContainerPresent)
        /\ (st[1].ans \notin ContainerPresent) =>
              /\ Len(st) = 1
              /\ newCall.at = "returned"
              /\ newCall.err = st[1].ans
              /\ NoInstance
        /\ (Len(st) = 2 /\ st[2].ans \notin ObjectPresent) =>
              /\ newCall.at = "returned"
              /\ newCall.err = st[2].ans
              /\ NoInstance
        /\ (st[1].ans \in ContainerPresent /\ Len(st) = 1) => newCall.at = "blob"
        /\ (Len(st) = 2 /\ st[2].ans \in ObjectPresent) =>
              /\ newCall.at \in {"instance", "returned"}
              /\ newCall.err = "nil"
              /\ newCall.at = "returned" =>
                    /\ newCall.instance \in live
                    /\ Idle(newCall.instance)
                    /\ \A t \in Watchers :
                          pc[newCall.instance][t] =
                              IF t \in Range(AppliedBehaviors(newCall.cfg.behavior))
                                 THEN "select" ELSE "absent"

\* C20 witness: the container was there already and the object was there with an
\* active lease; NewLockInstance has returned an Idle instance with the default
\* behaviors started
C20_Witness ==
    /\ newCall.at = "returned"
    /\ newCall.err = "nil"
    /\ newCall.storage = << [call |-> "createContainer", ans |-> "ContainerAlreadyExists"],
                            [call |-> "createObject", ans |-> "LeaseIdMissing"] >>
    /\ newCall.instance \in live
    /\ Idle(newCall.instance)
    /\ behaviors[newCall.instance] = defaultLockBehaviors
    /\ \A t \in Watchers : pc[newCall.instance][t] = "select"

\* C21: a call of NewLockInstance that returns an instance has applied, when no
\* behavior was given, exactly AutoRenewLock, PanicOnLostLock,
\* UnlockWhenContextCancelled, RetryObtainingLock in this order, and otherwise
\* exactly the given list, element by element in the given order; the instance
\* carries the applied behaviors and no other, and a watcher goroutine runs
\* exactly for the applied watcher behaviors.
C21_BehaviorsApplied ==
    (newCall.at = "returned" /\ newCall.err = "nil") =>
        LET given == newCall.cfg.behavior
            applied == newCall.applied
            i == newCall.instance
        IN  /\ given = <<>> =>
                  applied = <<AutoRenewLock, PanicOnLostLock,
                              UnlockWhenContextCancelled, RetryObtainingLock>>
            /\ given # <<>> =>
                  /\ Len(applied) = Len(given)
                  /\ \A k \in 1..Len(given) : applied[k] = given[k]
            /\ behaviors[i] = {applied[k] : k \in 1..Len(applied)}
            /\ \A t \in Watchers :
                  pc[i][t] # "absent" <=> \E k \in 1..Len(applied) : applied[k] = t

\* an instance was returned for the list RetryObtainingLock, AutoRenewLock: no
\* goroutine of PanicOnLostLock or UnlockWhenContextCancelled runs
C21_Witness ==
    /\ newCall.at = "returned"
    /\ newCall.err = "nil"
    /\ newCall.cfg.behavior = <<RetryObtainingLock, AutoRenewLock>>
    /\ newCall.applied = <<RetryObtainingLock, AutoRenewLock>>
    /\ pc[newCall.instance][AutoRenewLock] = "select"
    /\ pc[newCall.instance][PanicOnLostLock] = "absent"
    /\ pc[newCall.instance][UnlockWhenContextCancelled] = "absent"

\* the groups a name falls into when it is cut at its hyphens
RECURSIVE HyphenGroups(_)
HyphenGroups(s) ==
    IF \A k \in 1..Len(s) : s[k] # "-" THEN <<s>>
    ELSE LET h == CHOOSE k \in 1..Len(s) :
                     s[k] = "-" /\ \A m \in 1..(k - 1) : s[m] # "-"
         IN  <<SubSeq(s, 1, h - 1)>> \o HyphenGroups(SubSeq(s, h + 1, Len(s)))

AlphaNumeric(g) ==
    /\ g # <<>>
    /\ \A k \in 1..Len(g) : g[k] \in LowerCase \cup Digits

LengthRule(s) == 3 <= Len(s) /\ Len(s) <= 58
PatternRule(s) ==
    \A k \in 1..Len(HyphenGroups(s)) : AlphaNumeric(HyphenGroups(s)[k])

\* the call has passed the checks of the key and of the ttl, so the name was checked
NameChecked ==
    /\ newCall.at # "start"
    /\ newCall.err \notin {"key_empty", "ttl_range"}

C23_FreshInstanceLocks ==
    /\ [](\A i \in Instances :
             (pc[i][Owner] = "idle" /\ res[i][Owner] = [op |-> "Unlock", r |-> "ok"])
                 => (Released(i) /\ lease # LockID(i)))
    /\ [][\A j \in Instances :
             (/\ newCall.at = "returned" /\ newCall.instance = j
              /\ Leaves(j, Owner, "Lock_wait")
              /\ Idle(j))
                 => (/\ OneRequest(j, "acquire")
                     /\ res'[j][Owner] = [op |-> "Lock", r |-> "ok"]
                     /\ lease' = LockID(j))]_vars

\* the first instance has acquired, renewed and released the lease, the second
\* was created finding the container and the blob, and its Lock() has returned nil
C23_Witness ==
    /\ calls["a"].acquire = 1 /\ calls["a"].renew > 0 /\ calls["a"].release = 1
    /\ res["a"][Owner] = [op |-> "Unlock", r |-> "ok"]
    /\ Released("a")
    /\ newCall.at = "returned" /\ newCall.instance = "b"
    /\ newCall.storage = <<[call |-> "createContainer", ans |-> "ContainerAlreadyExists"],
                           [call |-> "createObject", ans |-> "BlobAlreadyExists"]>>
    /\ pc["b"][Owner] = "idle"
    /\ res["b"][Owner] = [op |-> "Lock", r |-> "ok"]
    /\ Acquired("b")
    /\ lease = LockID("b")

AnnotatedEnabled(obj) == <<"azure/frontdoor", "enabled">> \in obj.Annotations

HasServiceWithIP(services) ==
    \E k \in 1..Len(services) :
        /\ AnnotatedEnabled(services[k])
        /\ services[k].Ingress # <<>>
        /\ services[k].Ingress[1].IP # ""

EnabledIngresses(list) == SelectSeq(list, AnnotatedEnabled)

StartReturned == startCall # NoCall /\ startCall.at = "returned"

\* C24 as stated: when the refresh of the store succeeded, Start returns an error
\* without a call of provider.Sync if no service annotated azure/frontdoor=enabled
\* has a load-balancer IP, and otherwise has called provider.Sync once with the
\* ingresses annotated azure/frontdoor=enabled and returns that list.
C24_Original ==
    (StartReturned /\ startCall.ret.err # "resync_error") =>
        IF ~HasServiceWithIP(startCall.services)
           THEN startCall.ret.err # "nil" /\ startCall.syncs = <<>>
           ELSE /\ startCall.syncs = <<EnabledIngresses(startCall.ingressStore)>>
                /\ startCall.ret.list = EnabledIngresses(startCall.ingressStore)

SyncTrace == IF syncCall = NoCall THEN <<>> ELSE syncCall.trace
CallsOf(name) == {k \in 1..Len(SyncTrace) : SyncTrace[k].call = name}

\* C30: in Synchronizer.Sync every call of getCurrentState and of updateState
\* comes after getLock returned a locked instance; when getLock fails Sync
\* returns its error after no other call; when it succeeds Sync calls Unlock()
\* exactly once, as its last call, whether it returns nil, the error of
\* getCurrentState or the error of updateState, and updateState is not called
\* after getCurrentState failed.
C30_SyncUnderLock ==
    /\ \A k \in CallsOf("getCurrentState") \cup CallsOf("updateState") \cup CallsOf("Unlock") :
          k > 1 /\ SyncTrace[1] = [call |-> "getLock", r |-> "nil"]
    /\ (syncCall # NoCall /\ syncCall.at = "returned") =>
          /\ CallsOf("getLock") = {1}
          /\ SyncTrace[1].r # "nil" =>
                Len(SyncTrace) = 1 /\ syncCall.err = SyncTrace[1].r
          /\ SyncTrace[1].r = "nil" =>
                /\ CallsOf("Unlock") = {Len(SyncTrace)}
                /\ CallsOf("getCurrentState") = {2}
                /\ SyncTrace[2].r # "nil" =>
                      Len(SyncTrace) = 3 /\ syncCall.err = SyncTrace[2].r
                /\ SyncTrace[2].r = "nil" =>
                      /\ CallsOf("updateState") = {3}
                      /\ Len(SyncTrace) = 4
                      /\ syncCall.err = SyncTrace[3].r

\* getCurrentState failed under the lock and Sync has returned its error after
\* the deferred Unlock()
C30_Witness ==
    /\ syncCall # NoCall
    /\ syncCall.at = "returned"
    /\ syncCall.err = "get_error"
    /\ Len(syncCall.trace) = 3
    /\ syncCall.trace[1] = [call |-> "getLock", r |-> "nil"]
    /\ syncCall.trace[2] = [call |-> "getCurrentState", r |-> "get_error"]
    /\ syncCall.trace[3].call = "Unlock"

\* C25: when the scope of an Acquired instance is done, UnlockWhenContextCancelled
\* leaves its select for unlockContext, and that unlockContext sends one
\* ReleaseLease under a context of its own: with storage answering by the
\* state of the lease, the release of a held lease succeeds although the scope
\* of the instance is done, and the instance is Released when it returns.
C25_UnlockUnderFreshScope ==
    [][\A i \in Instances :
          LET t == UnlockWhenContextCancelled IN
          /\ (Leaves(i, t, "select") /\ LockLost'[i] = LockLost[i] /\ lockAcquired[i]) =>
                ctxDone(i) /\ pc'[i][t] = "Unlock_wait"
          /\ (Leaves(i, t, "Unlock_wait") /\ Acquired(i)) =>
                /\ ctxDone(i)
                /\ OneRequest(i, "release")
                /\ lease = LockID(i) =>
                      res'[i][t] = [op |-> "Unlock", r |-> "ok"] /\ lease' = NoLease
          /\ (Leaves(i, t, "Unlock_fin") /\ res[i][t].r = "ok") =>
                Released(i)' /\ pc'[i][t] = "done"
      ]_vars

\* the parent context was cancelled while the lock was held; the release of
\* UnlockWhenContextCancelled was accepted and the instance is Released
C25_Witness ==
    \E i \in Instances :
        /\ parentDone[i]
        /\ res[i][UnlockWhenContextCancelled] = [op |-> "Unlock", r |-> "ok"]
        /\ pc[i][UnlockWhenContextCancelled] = "done"
        /\ calls[i].release = 1
        /\ Released(i)
        /\ lease = NoLease

\* C26 as stated: on an instance whose behaviors hold AutoRenewLock and not
\* PanicOnLostLock, a notification in LockLost is taken out by the owner only:
\* no goroutine of a behavior moves in a step that takes one out.
C26_Original ==
    [][\A i \in Instances :
          (/\ AutoRenewLock \in behaviors[i]
           /\ PanicOnLostLock \notin behaviors[i]
           /\ LockLost'[i] < LockLost[i])
              => \A t \in Watchers : pc'[i][t] = pc[i][t]
      ]_vars

\* C27: once the scope of an instance is done, by its parent, by an Unlock() or
\* by AutoRenewLock after a failed Renew(), each of its watcher goroutines
\* returns in the end under fair scheduling; the send of AutoRenewLock on
\* LockLost always finds room in the channel, and a watcher that has returned
\* stays so.
C27_WatchersReturn ==
    /\ \A i \in Instances, t \in Watchers :
          (i \in live /\ t \in behaviors[i] /\ ctxDone(i)) ~> (pc[i][t] = "done")
    /\ [](\A i \in Instances :
             pc[i][AutoRenewLock] = "send_lost" => LockLost[i] < LockLostCap)
    /\ [][\A i \in Instances, t \in Watchers :
             pc[i][t] = "done" => pc'[i][t] = "done"]_vars

\* AutoRenewLock has cancelled the scope after a failed Renew() and sent its
\* notification, and the three watchers have returned
C27_Witness ==
    \E i \in Instances :
        /\ cancelled[i] /\ ~parentDone[i]
        /\ lossSent[i] = 1
        /\ res[i][AutoRenewLock] = [op |-> "Renew", r |-> "error"]
        /\ \A t \in Watchers : pc[i][t] = "done"

ObjectAddressed == newCall.blob # <<>>
ValidNames == {n \in Names : IsValidLockName(n) = "nil"}

\* C29 as stated: a call of NewLockInstance that reaches storage addresses the
\* container azlockcontainer and in it the blob named azlk- followed by the
\* lower-case form of its lock name, so that it addresses the same blob as a call
\* with another valid name exactly when the two names have the same lower-case
\* form.
C29_Original ==
    ObjectAddressed =>
        /\ newCall.container = "azlockcontainer"
        /\ newCall.blob = <<"a", "z", "l", "k", "-">> \o ToLower(newCall.cfg.lockName)
        /\ \A n \in ValidNames :
              (newCall.blob = BlobName(n)) <=> (ToLower(newCall.cfg.lockName) = ToLower(n))

\* C31 as stated: l.panic is called on an instance only after a Renew() of
\* AutoRenewLock sent a RenewLease request that storage answered with an error;
\* it is not called when every Renew() that reached storage succeeded.
C31_Original ==
    \A i \in Instances :
        panicCalls[i] > 0 => res[i][AutoRenewLock] = [op |-> "Renew", r |-> "error"]

\* C32: when an unlockContext on an Acquired instance has sent its ReleaseLease
\* and storage answered with an error, it returns that error, the scope of the
\* instance is cancelled, and lockAcquired and used are as before: the instance
\* is still Acquired.  An unlockContext that starts on an instance left so sends
\* a ReleaseLease again, it is not turned down by the state checks.
C32_FailedUnlock ==
    [][\A i \in Instances, t \in Tasks :
          /\ (Leaves(i, t, "Unlock_fin") /\ res[i][t].r = "error") =>
                /\ Acquired(i)
                /\ res'[i][t] = [op |-> "Unlock", r |-> "error"]
                /\ cancelled'[i]
                /\ lockAcquired'[i] = lockAcquired[i] /\ used'[i] = used[i]
                /\ Acquired(i)'
                /\ internalMutex'[i] = Free
          /\ (Leaves(i, t, "Unlock_wait") /\ Acquired(i) /\ calls[i].release > 0) =>
                /\ OneRequest(i, "release")
                /\ pc'[i][t] = "Unlock_fin"
      ]_vars

\* Unlock() of the owner failed at storage and left the instance Acquired with
\* its scope cancelled; the release of UnlockWhenContextCancelled that followed
\* was accepted
C32_Witness ==
    \E i \in Instances :
        /\ res[i][Owner] = [op |-> "Unlock", r |-> "error"]
        /\ pc[i][Owner] = "idle"
        /\ ~parentDone[i] /\ cancelled[i]
        /\ calls[i].release = 2
        /\ res[i][UnlockWhenContextCancelled] = [op |-> "Unlock", r |-> "ok"]
        /\ Released(i)

\* C33: when a Lock() on an Idle instance has sent its AcquireLease and storage
\* answered with an error, it returns that error and leaves lockAcquired, used
\* and the scope of the instance as they were: the instance is still Idle.  A
\* Lock() that starts on an instance left so sends an AcquireLease again, and
\* when storage grants it the instance is Acquired.
C33_FailedLock ==
    [][\A i \in Instances, t \in Tasks :
          /\ (Leaves(i, t, "Lock_fin") /\ res[i][t].r = "error") =>
                /\ Idle(i)
                /\ res'[i][t] = [op |-> "Lock", r |-> "error"]
                /\ lockAcquired'[i] = lockAcquired[i] /\ used'[i] = used[i]
                /\ cancelled'[i] = cancelled[i] /\ parentDone'[i] = parentDone[i]
                /\ Idle(i)'
                /\ internalMutex'[i] = Free
          /\ (Leaves(i, t, "Lock_wait") /\ Idle(i) /\ calls[i].acquire > 0) =>
                /\ OneRequest(i, "acquire")
                /\ pc'[i][t] = "Lock_fin"
          /\ (Leaves(i, t, "Lock_fin") /\ res[i][t].r = "ok") => Acquired(i)'
      ]_vars

\* without RetryObtainingLock: the first Lock() of the owner failed at storage,
\* the second was granted the lease
C33_Witness ==
    \E i \in Instances :
        /\ RetryObtainingLock \notin behaviors[i]
        /\ opsLeft[i] = MaxOwnerOps - 2
        /\ calls[i].acquire = 2
        /\ calls[i].renew = 0 /\ calls[i].release = 0
        /\ pc[i][Owner] = "idle"
        /\ res[i][Owner] = [op |-> "Lock", r |-> "ok"]
        /\ ~ctxDone(i)
        /\ Acquired(i)
        /\ lease = LockID(i)

\* a body of instance i holds the answer ok of its request and has not returned
Granted(i, fin) == \E t \in Tasks : pc[i][t] = fin /\ res[i][t].r = "ok"

\* C34: in every state used implies lockAcquired, and a body that has sent its
\* request holds internalMutex; no step unsets lockAcquired or used; an
\* AcquireLease of an instance is answered ok only while the instance is Idle
\* and no earlier grant waits to be recorded, and lockAcquired is set when the
\* Lock() that got it returns; a ReleaseLease is answered ok only while the
\* instance is Acquired and no earlier release waits to be recorded, and used
\* is set when that unlockContext returns.  So at most one AcquireLease and at
\* most one ReleaseLease of an instance succeed.
C34_LifeCycleForward ==
    /\ [](\A i \in Instances :
             /\ used[i] => lockAcquired[i]
             /\ \A t \in Tasks : pc[i][t] \in InBody => internalMutex[i] = t)
    /\ [][\A i \in Instances :
             /\ lockAcquired[i] => lockAcquired'[i]
             /\ used[i] => used'[i]
             /\ \A t \in Tasks :
                   /\ (Leaves(i, t, "Lock_wait") /\ pc'[i][t] = "Lock_fin"
                           /\ res'[i][t].r = "ok") =>
                         Idle(i) /\ ~Granted(i, "Lock_fin")
                   /\ (Leaves(i, t, "Lock_fin") /\ res[i][t].r = "ok") =>
                         lockAcquired'[i]
                   /\ (Leaves(i, t, "Unlock_wait") /\ pc'[i][t] = "Unlock_fin"
                           /\ res'[i][t].r = "ok") =>
                         Acquired(i) /\ ~Granted(i, "Unlock_fin")
                   /\ (Leaves(i, t, "Unlock_fin") /\ res[i][t].r = "ok") =>
                         used'[i]
        ]_vars

\* an instance was locked and unlocked once each, and the Lock() its owner called
\* after that was turned down without a request
C34_Witness ==
    \E i \in Instances :
        /\ lockAcquired[i] /\ used[i]
        /\ calls[i].acquire = 1 /\ calls[i].release = 1
        /\ pc[i][Owner] = "idle"
        /\ res[i][Owner] = [op |-> "Lock", r |-> "misuse"]
        /\ opsLeft[i] = MaxOwnerOps - 3

====
